---------------------------- MODULE Spec2Model ----------------------------
(***************************************************************************)
(* Model of the Tok Ayah Telegram bot (garammasam/telegram-bot-deep):      *)
(*   - the message:text router of AgentManager (src/src/agent-manager.ts)  *)
(*     and its older always-synthesize variant (src/unnamed/part_001),     *)
(*   - the responders' relevance check (BaseIslamicAgent.shouldRespond),   *)
(*   - the output formatter (formatResponseForTelegram, simpleFormatting), *)
(*   - the chunker (splitResponse).                                        *)
(*                                                                         *)
(* Texts are TLA+ strings; JavaScript's 0-based string operations are      *)
(* written on top of Len, \o and SubSeq.  Glyphs outside ASCII that the    *)
(* code writes into its output are represented by reserved ASCII           *)
(* characters that no input text of the model contains.                    *)
(***************************************************************************)
EXTENDS Integers, Sequences, FiniteSets, TLC

(***************************************************************************)
(* JavaScript string primitives                                            *)
(***************************************************************************)

\* s.charAt(i), 0-based; "" outside the string
CharAt(s, i) == IF i >= 0 /\ i < Len(s) THEN SubSeq(s, i + 1, i + 1) ELSE ""

\* s.slice(a, b) for 0 <= a, b
Slice(s, a, b) ==
    LET hi == IF b > Len(s) THEN Len(s) ELSE b
    IN  IF a >= hi THEN "" ELSE SubSeq(s, a + 1, hi)

\* s.slice(a)
SliceFrom(s, a) == Slice(s, a, Len(s))

\* s.startsWith(p, i)
StartsWithAt(s, p, i) == i >= 0 /\ i + Len(p) <= Len(s) /\ SubSeq(s, i + 1, i + Len(p)) = p

StartsWith(s, p) == StartsWithAt(s, p, 0)

EndsWith(s, p) == StartsWithAt(s, p, Len(s) - Len(p))

SetMin(S) == CHOOSE x \in S : \A y \in S : x <= y

SetMax(S) == CHOOSE x \in S : \A y \in S : y <= x

\* s.indexOf(p, from): the first index >= from where p occurs, or -1
IndexOfFrom(s, p, from) ==
    LET S == {i \in from..(Len(s) - Len(p)) : StartsWithAt(s, p, i)}
    IN  IF S = {} THEN -1 ELSE SetMin(S)

\* s.includes(p)
Includes(s, p) == \E i \in 0..(Len(s) - Len(p)) : StartsWithAt(s, p, i)

\* s.lastIndexOf(p, from): the last index <= from where p occurs, or -1
LastIndexOf(s, p, from) ==
    LET top == IF from < Len(s) - Len(p) THEN from ELSE Len(s) - Len(p)
        S == {i \in 0..top : StartsWithAt(s, p, i)}
    IN  IF S = {} THEN -1 ELSE SetMax(S)

\* the characters matched by the regular expression class \s
IsSpace(c) == c \in {" ", "\n", "\t", "\r"}

RECURSIVE LeadingSpaces(_, _)
LeadingSpaces(s, i) ==
    IF i < Len(s) /\ IsSpace(CharAt(s, i)) THEN LeadingSpaces(s, i + 1) ELSE i

RECURSIVE TrailingStart(_, _)
TrailingStart(s, i) ==
    IF i > 0 /\ IsSpace(CharAt(s, i - 1)) THEN TrailingStart(s, i - 1) ELSE i

\* s.trim()
Trim(s) ==
    LET a == LeadingSpaces(s, 0)
        b == TrailingStart(s, Len(s))
    IN  Slice(s, a, b)

\* s.repeat(n)
RECURSIVE Rep(_, _)
Rep(s, n) ==
    IF n <= 0 THEN ""
    ELSE IF n = 1 THEN s
    ELSE LET h == Rep(s, n \div 2)
         IN  h \o h \o (IF n % 2 = 1 THEN s ELSE "")

(***************************************************************************)
(* The chunker: AgentManager.splitResponse                                 *)
(***************************************************************************)

MAX_LENGTH == 4000

\* appended to a chunk that is followed by another one
ContinuedSuffix == "\n\n<i>(continued...)</i>"

\* prepended to the remaining text after a cut
ContinuationPrefix == "<i>(continuation)</i>\n\n"

\* the mutant of SplitIndex: the hard cut taken one character late
SplitIndexLate(t) ==
    LET blank == LastIndexOf(t, "\n\n", MAX_LENGTH)
        sentence == LastIndexOf(t, ". ", MAX_LENGTH)
    IN  IF blank # -1 THEN blank
        ELSE IF sentence # -1 THEN sentence
        ELSE MAX_LENGTH + 1

\* the break point of one cut: the last blank line at or before the budget,
\* else the last period-space, else the budget itself
SplitIndex(t) ==
    LET blank == LastIndexOf(t, "\n\n", MAX_LENGTH)
        sentence == LastIndexOf(t, ". ", MAX_LENGTH)
    IN  IF blank # -1 THEN blank
        ELSE IF sentence # -1 THEN sentence
        ELSE MAX_LENGTH

\* the chunk cut off the front of t, before any marker is added
CutChunk(t) == Slice(t, 0, SplitIndex(t))

\* the mutant of CutRest: the character at the break point is dropped
CutRestPastBreak(t) == Trim(SliceFrom(t, SplitIndex(t) + 1))

\* what is left of t after the cut, trimmed
CutRest(t) == Trim(SliceFrom(t, SplitIndex(t)))

(***************************************************************************)
(* Regular-expression replacements used by the formatter                   *)
(***************************************************************************)

\* s.replace(/p/g, r) for a literal p
RECURSIVE ReplaceAll(_, _, _)
ReplaceAll(s, p, r) ==
    LET i == IndexOfFrom(s, p, 0)
    IN  IF i = -1 THEN s
        ELSE Slice(s, 0, i) \o r \o ReplaceAll(SliceFrom(s, i + Len(p)), p, r)

\* one line under /^P(.*?)$/ with replacement open $1 close, for P in prefixes
\* (all of one length); a line without the prefix is left as it is
RewriteLine(line, prefixes, open, close) ==
    IF \E p \in prefixes : StartsWith(line, p)
    THEN LET p == CHOOSE q \in prefixes : StartsWith(line, q)
         IN  open \o SliceFrom(line, Len(p)) \o close
    ELSE line

\* s.replace(/^P(.*?)$/gm, open + '$1' + close): every line is rewritten
RECURSIVE RewriteLines(_, _, _, _)
RewriteLines(s, prefixes, open, close) ==
    LET nl == IndexOfFrom(s, "\n", 0)
    IN  IF nl = -1 THEN RewriteLine(s, prefixes, open, close)
        ELSE RewriteLine(Slice(s, 0, nl), prefixes, open, close) \o "\n"
             \o RewriteLines(SliceFrom(s, nl + 1), prefixes, open, close)

\* does the lazy pattern d(.*?)d match with its opening d at index i:
\* the first d after it must come before the next line break
DelimCloses(s, d, i) ==
    LET j == IndexOfFrom(s, d, i + Len(d))
        nl == IndexOfFrom(s, "\n", i + Len(d))
    IN  j # -1 /\ (nl = -1 \/ nl > j)

\* s.replace(/d(.*?)d/g, open + '$1' + close) for a literal delimiter d
RECURSIVE DelimReplace(_, _, _, _)
DelimReplace(s, d, open, close) ==
    LET C == {i \in 0..(Len(s) - 2 * Len(d)) : StartsWithAt(s, d, i) /\ DelimCloses(s, d, i)}
    IN  IF C = {} THEN s
        ELSE LET i == SetMin(C)
                 j == IndexOfFrom(s, d, i + Len(d))
             IN  Slice(s, 0, i) \o open \o Slice(s, i + Len(d), j) \o close
                 \o DelimReplace(SliceFrom(s, j + Len(d)), d, open, close)

\* the index of the last line break of the whitespace run that starts at i
LastBreakOfRun(s, i) == LastIndexOf(Slice(s, 0, LeadingSpaces(s, i)), "\n", Len(s))

\* s.replace(/\n\s*\n/g, '\n\n')
RECURSIVE CollapseBlankLines(_)
CollapseBlankLines(s) ==
    LET C == {i \in 0..(Len(s) - 2) : CharAt(s, i) = "\n" /\ LastBreakOfRun(s, i) > i}
    IN  IF C = {} THEN s
        ELSE LET i == SetMin(C)
                 j == LastBreakOfRun(s, i)
             IN  Slice(s, 0, i) \o "\n\n" \o CollapseBlankLines(SliceFrom(s, j + 1))

Digits == {"0", "1", "2", "3", "4", "5", "6", "7", "8", "9"}

\* the prefixes matched by /^\d\. /
NumberedPrefixes == {d \o ". " : d \in Digits}

OpenTags == {"<b>", "<i>"}

CloseTags == {"</b>", "</i>"}

\* s.replace(/([^\s])<(b|i)>/g, '$1 <$2>')
RECURSIVE SpaceBeforeTags(_)
SpaceBeforeTags(s) ==
    LET C == {k \in 1..(Len(s) - 3) :
                 /\ \E t \in OpenTags : StartsWithAt(s, t, k)
                 /\ ~IsSpace(CharAt(s, k - 1))}
    IN  IF C = {} THEN s
        ELSE LET k == SetMin(C)
             IN  Slice(s, 0, k) \o " " \o Slice(s, k, k + 3) \o SpaceBeforeTags(SliceFrom(s, k + 3))

\* s.replace(/<\/(b|i)>([^\s])/g, '</$1> $2')
RECURSIVE SpaceAfterTags(_)
SpaceAfterTags(s) ==
    LET C == {k \in 0..(Len(s) - 5) :
                 /\ \E t \in CloseTags : StartsWithAt(s, t, k)
                 /\ ~IsSpace(CharAt(s, k + 4))}
    IN  IF C = {} THEN s
        ELSE LET k == SetMin(C)
             IN  Slice(s, 0, k + 4) \o " " \o CharAt(s, k + 4) \o SpaceAfterTags(SliceFrom(s, k + 5))

(***************************************************************************)
(* The tag-stack validator of formatResponseForTelegram                    *)
(***************************************************************************)

\* the tag matched by /<\/?[bi]>/ at index k, or "" when there is none
TagAt(s, k) ==
    IF \E t \in OpenTags : StartsWithAt(s, t, k) THEN Slice(s, k, k + 3)
    ELSE IF \E t \in CloseTags : StartsWithAt(s, t, k) THEN Slice(s, k, k + 4)
    ELSE ""

\* the indices at which a tag starts
TagPositions(s) == {k \in 0..(Len(s) - 3) : TagAt(s, k) # ""}

\* the tags of s, left to right (the successive matches of tagRegex.exec)
RECURSIVE TagsFrom(_, _, _)
TagsFrom(s, P, from) ==
    LET R == {k \in P : k >= from}
    IN  IF R = {} THEN <<>>
        ELSE LET k == SetMin(R)
             IN  <<TagAt(s, k)>> \o TagsFrom(s, P, k + Len(TagAt(s, k)))

TagSequence(s) == TagsFrom(s, TagPositions(s), 0)

\* tag.includes(expectedTag.slice(1, -1)) for a closing tag and the popped opener
CloserMatches(tag, expectedTag) == Includes(tag, Slice(expectedTag, 1, Len(expectedTag) - 1))

\* the validation loop over the tags from index n on, with the stack so far;
\* TRUE iff no closing tag fails and the stack is empty at the end
RECURSIVE StackScan(_, _, _)
StackScan(tags, n, stack) ==
    IF n > Len(tags) THEN stack = <<>>
    ELSE IF StartsWith(tags[n], "</")
         THEN /\ stack # <<>>
              /\ CloserMatches(tags[n], stack[Len(stack)])
              /\ StackScan(tags, n + 1, SubSeq(stack, 1, Len(stack) - 1))
         ELSE StackScan(tags, n + 1, Append(stack, tags[n]))

\* isValid && stack.length === 0
IsValidTags(s) == StackScan(TagSequence(s), 1, <<>>)

(***************************************************************************)
(* formatResponseForTelegram and its fallback simpleFormatting             *)
(***************************************************************************)

\* stand-ins for the glyphs of the plain-text rendering
Bullet == "~"

HeaderMark == "}"

BoldEndMark == "{"

QuoteMark == "|"

\* simpleFormatting
SimpleFormatting(text) ==
    LET h3 == RewriteLines(text, {"### "}, HeaderMark \o " ", "")
        h2 == RewriteLines(h3, {"## "}, HeaderMark \o " ", "")
        h1 == RewriteLines(h2, {"# "}, HeaderMark \o " ", "")
        bold == DelimReplace(h1, "**", HeaderMark \o " ", " " \o BoldEndMark)
        ital == DelimReplace(bold, "*", Bullet \o " ", " " \o Bullet)
        quote == RewriteLines(ital, {"> "}, "  " \o QuoteMark \o " ", "")
        num == RewriteLines(quote, NumberedPrefixes, Bullet \o " ", "")
        dash == RewriteLines(num, {"- "}, Bullet \o " ", "")
    IN  Trim(CollapseBlankLines(dash))

\* the escaped text: '<' and '>' become entities
EscapeAngles(text) == ReplaceAll(ReplaceAll(text, "<", "&lt;"), ">", "&gt;")

\* the markup rewrite, before validation
MarkupRewrite(text) ==
    LET h3 == RewriteLines(EscapeAngles(text), {"### "}, "<b>", "</b>")
        h2 == RewriteLines(h3, {"## "}, "<b>", "</b>")
        h1 == RewriteLines(h2, {"# "}, "<b>", "</b>")
        bold == DelimReplace(h1, "**", "<b>", "</b>")
        ital == DelimReplace(bold, "*", "<i>", "</i>")
        quote == RewriteLines(ital, {"> "}, "\n<i>", "</i>\n")
        num == RewriteLines(quote, NumberedPrefixes, "\n" \o Bullet \o " ", "")
        dash == RewriteLines(num, {"- "}, "\n" \o Bullet \o " ", "")
        trimmed == Trim(CollapseBlankLines(dash))
    IN  SpaceAfterTags(SpaceBeforeTags(ReplaceAll(trimmed, "><", "> <")))

\* formatResponseForTelegram
FormatResponseForTelegram(text) ==
    LET formatted == MarkupRewrite(text)
    IN  IF IsValidTags(formatted) THEN formatted ELSE SimpleFormatting(text)

(***************************************************************************)
(* Rendering one generated response: replyWithFormattedResponse formats    *)
(* the response and then runs the loop of splitResponse on the result.     *)
(***************************************************************************)

VARIABLES
    response,    \* the generated text handed to replyWithFormattedResponse
    formatted,   \* formattedResponse, the argument of splitResponse
    text,        \* splitResponse: the text that remains to be chunked
    chunks,      \* splitResponse: the chunks pushed so far
    pcRender     \* "idle", "format", "split" (in the while loop) or "done"

renderVars == <<response, formatted, text, chunks, pcRender>>

\* The router: the message:text handler of AgentManager
VARIABLES
    variant,           \* the deployed handler: "specialist" (src/src/agent-manager.ts) or "synthesize" (older)
    botUsername,       \* this.botUsername
    msg,               \* the message being handled (ctx), or the last one handled
    pc,                \* "idle", "handle", "score", "opinion" or "render"
    questionText,      \* the local questionText
    question,          \* the local question
    branch,            \* the branch the handler took for msg
    replies,           \* the ctx.reply calls made for msg
    calls,             \* the generation-service calls made for msg
    setups,            \* the setupHandlers calls made for msg
    chain,             \* the middleware that ran for msg, in registration order
    uncaught,          \* an error thrown by ctx.reply has left the handler
    scoreIdx,          \* the position of the for loop over this.agents
    bestAgent,         \* the local bestAgent
    highestRelevance,  \* the local highestRelevance, in tenths
    agentResponses,    \* OpinionAgent.generateResponse: the promises of the fan-out, by index
    completions,       \* the outcomes of the completion calls of the fan-out, as they arrive
    perspectives       \* OpinionAgent.generateResponse: the local perspectives

routerVars ==
    <<variant, botUsername, msg, pc, questionText, question, branch, replies, calls, setups,
      chain, uncaught, scoreIdx, bestAgent, highestRelevance, agentResponses, completions,
      perspectives>>

\* the locals of OpinionAgent.generateResponse
opinionVars == <<agentResponses, completions, perspectives>>

\* The process: main() of src/src/index.ts, startAllAgents, stopAllAgents and
\* the signal handlers
VARIABLES
    isRunning,         \* info.isRunning of every entry of this.agents
    started,           \* startAllAgents: the setupHandlers calls that have returned
    life,              \* "starting", "polling", "returned", "stopping", "failed", "killed", "exited0" or "exited1"
    shutdownHandlers,  \* setupShutdownHandlers has registered the SIGTERM and SIGINT listeners
    stopResult         \* how the bot.stop() of the last stopAllAgents ended, "none" before

lifeVars == <<isRunning, started, life, shutdownHandlers, stopResult>>

vars == <<renderVars, routerVars, lifeVars>>

\* the keys of this.agents, in insertion order
AgentNames == <<"fatwa", "mazhab", "jakim", "malaysianfatwa", "ibadah", "opinion">>

\* the process has neither exited nor been terminated
ProcessAlive == life \notin {"killed", "exited0", "exited1"}

\* startAllAgents has set every handler up and bot.start is polling
Serving ==
    /\ isRunning = [n \in 1..Len(AgentNames) |-> TRUE]
    /\ started = Len(AgentNames)
    /\ life = "polling"
    /\ shutdownHandlers = FALSE
    /\ stopResult = "none"

\* the most pieces a short response is built of
MaxPieces == 4

\* the most chunks the loop of splitResponse is followed for
MaxChunks == 4

Pieces == {"*", "***", "a", "<b>", "\n", "# "}

RECURSIVE PieceTexts(_)
PieceTexts(n) ==
    IF n = 0 THEN {""}
    ELSE LET shorter == PieceTexts(n - 1)
         IN  shorter \cup {t \o p : t \in shorter, p \in Pieces}

\* short responses with every mix of markup-like pieces
ShortResponses == PieceTexts(MaxPieces)

\* two runs of plain characters around a separator, plain or inside ** **
LongShape(wrap, n1, sep, n2) == wrap \o Rep("a", n1) \o sep \o Rep("a", n2) \o wrap

\* responses longer than the budget
LongResponses ==
    {LongShape(wrap, n[1], sep, n[2]) :
        wrap \in {"", "**"},
        sep \in {"", "\n\n", ". "},
        n \in {<<3000, 1500>>, <<3000, 6000>>, <<5000, 4000>>}}
    \cup {Rep("a", 3000) \o "\n\n" \o Rep("a", 3000) \o "\n\n" \o Rep("a", 3000),
          Rep(Rep("a", 2100) \o "\n\n", 4) \o Rep("a", 2100),
          Rep("a", 3998) \o "**b**" \o Rep("a", 100)}

Responses == ShortResponses \cup LongResponses

\* no reply_to_message
NoReply == [isReply |-> FALSE, fromBot |-> FALSE, hasText |-> FALSE, text |-> ""]

NoMsg == [chat |-> "", text |-> "", reply |-> NoReply]

\* bestAgent = null
NoAgent == "null"

\* the router before its first message
RouterIdle ==
    /\ botUsername = ""
    /\ msg = NoMsg
    /\ pc = "idle"
    /\ questionText = ""
    /\ question = ""
    /\ branch = "none"
    /\ replies = <<>>
    /\ calls = <<>>
    /\ setups = 0
    /\ chain = <<>>
    /\ uncaught = FALSE
    /\ scoreIdx = 1
    /\ bestAgent = NoAgent
    /\ highestRelevance = 0
    /\ agentResponses = <<>>
    /\ completions = <<>>
    /\ perspectives = ""

\* replyWithFormattedResponse entered with any response
InitRender ==
    /\ response \in Responses
    /\ formatted = ""
    /\ text = ""
    /\ chunks = <<>>
    /\ pcRender = "format"
    /\ variant = "specialist"
    /\ RouterIdle
    /\ Serving

\* const formattedResponse = this.formatResponseForTelegram(response);
\* splitResponse is entered with it
FormatStep ==
    /\ pcRender = "format"
    /\ formatted' = FormatResponseForTelegram(response)
    /\ text' = formatted'
    /\ pcRender' = "split"
    /\ UNCHANGED <<response, chunks>>
    /\ UNCHANGED routerVars
    /\ ProcessAlive
    /\ UNCHANGED lifeVars

\* while (text.length > 0) is false: the loop ends
SplitExit ==
    /\ pcRender = "split"
    /\ Len(text) = 0
    /\ pcRender' = "done"
    /\ UNCHANGED <<response, formatted, text, chunks>>
    /\ UNCHANGED routerVars
    /\ ProcessAlive
    /\ UNCHANGED lifeVars

\* the remaining text is within the budget: it is pushed and the loop left
SplitLast ==
    /\ pcRender = "split"
    /\ Len(text) > 0
    /\ Len(text) <= MAX_LENGTH
    /\ chunks' = Append(chunks, text)
    /\ pcRender' = "done"
    /\ UNCHANGED <<response, formatted, text>>
    /\ UNCHANGED routerVars
    /\ ProcessAlive
    /\ UNCHANGED lifeVars

\* the mutant of MarkedChunk: the marker is appended without the blank line
MarkedChunkNoBreak(chunk, rest) ==
    IF Len(rest) > 0 THEN chunk \o "<i>(continued...)</i>" ELSE chunk

\* if (text.length > 0) chunks[chunks.length - 1] += '\n\n<i>(continued...)</i>'
MarkedChunk(chunk, rest) ==
    IF Len(rest) > 0 THEN chunk \o ContinuedSuffix ELSE chunk

\* if (text.length > 0) text = '<i>(continuation)</i>\n\n' + text
MarkedRest(rest) ==
    IF Len(rest) > 0 THEN ContinuationPrefix \o rest ELSE rest

\* one iteration that cuts a chunk off an over-long text
SplitCut ==
    /\ pcRender = "split"
    /\ Len(text) > MAX_LENGTH
    /\ Len(chunks) < MaxChunks
    /\ chunks' = Append(chunks, MarkedChunk(CutChunk(text), CutRest(text)))
    /\ text' = MarkedRest(CutRest(text))
    /\ UNCHANGED <<response, formatted, pcRender>>
    /\ UNCHANGED routerVars
    /\ ProcessAlive
    /\ UNCHANGED lifeVars

NextRender ==
    \/ FormatStep
    \/ SplitExit
    \/ SplitLast
    \/ SplitCut

\* formatting and chunking of every response
SpecRender == InitRender /\ [][NextRender]_vars

(***************************************************************************)
(* Case folding, word boundaries and case-insensitive removal              *)
(***************************************************************************)

UpperLetters == "ABCDEFGHIJKLMNOPQRSTUVWXYZ"

LowerLetters == "abcdefghijklmnopqrstuvwxyz"

\* c.toLowerCase() for one character
LowerChar(c) ==
    IF c # "" /\ Includes(UpperLetters, c)
    THEN CharAt(LowerLetters, IndexOfFrom(UpperLetters, c, 0))
    ELSE c

\* s.toLowerCase()
RECURSIVE ToLowerCase(_)
ToLowerCase(s) ==
    IF s = "" THEN "" ELSE LowerChar(CharAt(s, 0)) \o ToLowerCase(SliceFrom(s, 1))

\* the class \w
IsWordChar(c) ==
    c # "" /\ (Includes(LowerLetters, c) \/ Includes(UpperLetters, c) \/ c \in Digits \/ c = "_")

\* the assertion \b at index i of s
WordBoundaryAt(s, i) == IsWordChar(CharAt(s, i - 1)) # IsWordChar(CharAt(s, i))

\* the end of the run of characters of class cls that starts at index i
RECURSIVE RunEnd(_, _, _)
RunEnd(s, i, cls) ==
    IF i < Len(s) /\ CharAt(s, i) \in cls THEN RunEnd(s, i + 1, cls) ELSE i

SpaceClass == {" ", "\n", "\t", "\r"}

\* the class [,\s] of the alias pattern
CommaSpaceClass == SpaceClass \cup {","}

\* the class [,\\s] of the regular-expression literal /^[,\\s]+/: a comma,
\* a backslash and the letter s
LeadingStripClass == {",", "\\", "s"}

\* the alternative of the sequence alts that (alt1|alt2|...) matches at index i,
\* ignoring case, with \b on both sides if bounded; "" if none does
AltAt(s, low, i, alts, bounded) ==
    LET Ok(n) == /\ StartsWithAt(low, alts[n], i)
                 /\ bounded => WordBoundaryAt(s, i + Len(alts[n]))
        C == {n \in 1..Len(alts) : Ok(n)}
    IN  IF (bounded => WordBoundaryAt(s, i)) /\ C # {} THEN alts[SetMin(C)] ELSE ""

\* the replacement below, read from index from on; low is s in lower case
RECURSIVE RemoveMatchesFrom(_, _, _, _, _, _)
RemoveMatchesFrom(s, low, from, alts, bounded, trail) ==
    LET C == {i \in from..(Len(s) - 1) : AltAt(s, low, i, alts, bounded) # ""}
    IN  IF C = {} THEN SliceFrom(s, from)
        ELSE LET i == SetMin(C)
                 e == RunEnd(s, i + Len(AltAt(s, low, i, alts, bounded)), trail)
             IN  Slice(s, from, i) \o RemoveMatchesFrom(s, low, e, alts, bounded, trail)

\* s.replace(new RegExp('(alt1|alt2|...)' + trail + '*', 'gi'), '')
RemoveMatches(s, alts, bounded, trail) ==
    RemoveMatchesFrom(s, ToLowerCase(s), 0, alts, bounded, trail)

(***************************************************************************)
(* The mention detector: isBotMentioned and removeBotMention               *)
(***************************************************************************)

tokAyahVariations ==
    <<"tok ayah", "tokayah", "tok ayoh", "tokayoh", "tok aya", "tokaya", "tokayahh", "tok ayahh">>

\* isBotMentioned with this.botUsername = username
IsBotMentioned(t, username) ==
    LET lowerText == ToLowerCase(t)
        lowerUsername == ToLowerCase(username)
    IN  \/ /\ username # ""
           /\ \/ Includes(lowerText, "@" \o lowerUsername)
              \/ Includes(lowerText, lowerUsername)
        \/ \E n \in 1..Len(tokAyahVariations) : Includes(lowerText, tokAyahVariations[n])

\* if (this.botUsername) { the two replacements of the user name }
RemoveUsername(t, username) ==
    IF username = "" THEN t
    ELSE RemoveMatches(RemoveMatches(t, <<"@" \o ToLowerCase(username)>>, FALSE, SpaceClass),
                       <<ToLowerCase(username)>>, FALSE, SpaceClass)

\* cleaned after cleaned.replace(pattern, ''): the user name and the aliases
\* are removed
RemoveOccurrences(t, username) ==
    RemoveMatches(RemoveUsername(t, username), tokAyahVariations, TRUE, CommaSpaceClass)

\* cleaned.replace(/^[,\\s]+/, '')
StripLeading(s) == SliceFrom(s, RunEnd(s, 0, LeadingStripClass))

\* removeBotMention with this.botUsername = username
RemoveBotMention(t, username) == Trim(StripLeading(RemoveOccurrences(t, username)))

(***************************************************************************)
(* The trivial-interaction matcher: isSimpleInteraction                    *)
(***************************************************************************)

\* patterns.some(p => lowerText.includes(p))
SomeIncluded(lowerText, patterns) == \E p \in patterns : Includes(lowerText, p)

\* the canned replies (the long ones are named by their first sentence)
TimeGreetingReply == "Waalaikumussalam! How can I help you today?"

NightGreetingReply == "Waalaikumussalam! Good night!"

GreetingReply == "Waalaikumussalam! Alhamdulillah, I'm doing well. How can I help you today?"

ThanksReply == "You're welcome! Feel free to ask if you have any questions."

TestReply == "Yes, I'm here and working properly. How can I assist you?"

IntroReply == "Assalamualaikum! I am Tok Ayah, an Islamic knowledge assistant ..."

CapabilityReply == "I can help you in several ways: ..."

StatusReply == "Yes, I'm here and ready to help! What would you like to know?"

\* timeGreetings, in the order of Object.entries; the fourth entry is 'night'
timeGreetings ==
    << {"good morning", "morning", "selamat pagi", "pagi"},
       {"good afternoon", "afternoon", "selamat tengahari", "tengahari"},
       {"good evening", "evening", "selamat petang", "petang"},
       {"good night", "night", "selamat malam", "malam"} >>

greetings ==
    {"hi", "hello", "hey", "assalamualaikum", "salam",
     "apa khabar", "apa kabar", "apa macam",
     "sihat?", "sihat ke", "sihat tak",
     "macam mana", "cemana", "camne",
     "hai", "helo", "oi", "weh"}

thanks ==
    {"thank", "thanks", "terima kasih", "tq", "tenkiu",
     "tq ye", "thank you", "thanks ye", "terima kasih ye"}

testMessages == {"test", "testing", "check", "cuba", "try"}

introPatterns ==
    {"who are you", "who r u", "who are u", "who r you",
     "siapa kamu", "siapa anda", "siapa awak",
     "intro", "introduce", "perkenal", "kenalkan",
     "intro sikit", "cerita sikit", "tell me about yourself",
     "what is your name", "apa nama", "nama apa",
     "what are you", "apa kamu", "apa awak"}

capabilityPatterns ==
    {"what can you do", "what do you do", "apa you boleh buat",
     "how to use", "macam mana nak guna", "cara guna",
     "help", "tolong", "bantuan", "command", "arahan",
     "how does this work", "how do you work",
     "what are your functions", "apa fungsi"}

statusChecks ==
    {"are you there", "you there", "ada tak", "ada ke",
     "you ok", "ok tak", "working", "can you hear",
     "masih ada", "masih hidup", "tok ayah ada", "tok ayah?"}

\* lowerText.match(/\bwho\s+(?:are|r)\s*(?:you|u)\b/)
MatchesWhoAreYou(lowerText) ==
    \E i \in 0..(Len(lowerText) - 1) :
        /\ WordBoundaryAt(lowerText, i)
        /\ StartsWithAt(lowerText, "who", i)
        /\ LET a == RunEnd(lowerText, i + 3, SpaceClass)
           IN  /\ a > i + 3
               /\ \E verb \in {"are", "r"} :
                     /\ StartsWithAt(lowerText, verb, a)
                     /\ LET b == RunEnd(lowerText, a + Len(verb), SpaceClass)
                        IN  \E you \in {"you", "u"} :
                               /\ StartsWithAt(lowerText, you, b)
                               /\ WordBoundaryAt(lowerText, b + Len(you))

\* the test of one intro pattern
IntroMatches(lowerText, pattern) ==
    \/ lowerText = pattern
    \/ Includes(lowerText, pattern)
    \/ StartsWith(pattern, "who are") /\ MatchesWhoAreYou(lowerText)

NotSimple == [isSimple |-> FALSE, response |-> ""]

Simple(reply) == [isSimple |-> TRUE, response |-> reply]

\* the mutant of IsSimpleInteraction: the thanks are tested before the greetings
IsSimpleInteractionThanksFirst(t) ==
    LET lowerText == Trim(ToLowerCase(t))
        T == {n \in 1..Len(timeGreetings) : SomeIncluded(lowerText, timeGreetings[n])}
    IN  IF T # {}
        THEN Simple(IF SetMin(T) = Len(timeGreetings) THEN NightGreetingReply ELSE TimeGreetingReply)
        ELSE IF SomeIncluded(lowerText, thanks) THEN Simple(ThanksReply)
        ELSE IF SomeIncluded(lowerText, greetings) THEN Simple(GreetingReply)
        ELSE IF lowerText \in testMessages THEN Simple(TestReply)
        ELSE IF \E p \in introPatterns : IntroMatches(lowerText, p) THEN Simple(IntroReply)
        ELSE IF SomeIncluded(lowerText, capabilityPatterns) THEN Simple(CapabilityReply)
        ELSE IF SomeIncluded(lowerText, statusChecks) THEN Simple(StatusReply)
        ELSE NotSimple

\* isSimpleInteraction of src/src/agent-manager.ts
IsSimpleInteraction(t) ==
    LET lowerText == Trim(ToLowerCase(t))
        T == {n \in 1..Len(timeGreetings) : SomeIncluded(lowerText, timeGreetings[n])}
    IN  IF T # {}
        THEN Simple(IF SetMin(T) = Len(timeGreetings) THEN NightGreetingReply ELSE TimeGreetingReply)
        ELSE IF SomeIncluded(lowerText, greetings) THEN Simple(GreetingReply)
        ELSE IF SomeIncluded(lowerText, thanks) THEN Simple(ThanksReply)
        ELSE IF lowerText \in testMessages THEN Simple(TestReply)
        ELSE IF \E p \in introPatterns : IntroMatches(lowerText, p) THEN Simple(IntroReply)
        ELSE IF SomeIncluded(lowerText, capabilityPatterns) THEN Simple(CapabilityReply)
        ELSE IF SomeIncluded(lowerText, statusChecks) THEN Simple(StatusReply)
        ELSE NotSimple

\* the older variant's reply to a greeting
OlderGreetingReply == "Waalaikumussalam! How can I help you today?"

\* isSimpleInteraction of the older variant
IsSimpleInteractionOlder(t) ==
    LET lowerText == Trim(ToLowerCase(t))
    IN  IF lowerText \in {"hi", "hello", "hey", "assalamualaikum", "salam"}
        THEN Simple(OlderGreetingReply)
        ELSE IF SomeIncluded(lowerText, {"thank", "thanks", "terima kasih", "tq"})
        THEN Simple(ThanksReply)
        ELSE IF lowerText \in {"test", "testing", "check"} THEN Simple(TestReply)
        ELSE IF \E p \in introPatterns : IntroMatches(lowerText, p) THEN Simple(IntroReply)
        ELSE IF SomeIncluded(lowerText, capabilityPatterns) THEN Simple(CapabilityReply)
        ELSE NotSimple

opinionTriggers ==
    {"what", "how", "why", "opinion", "think", "view", "explain",
     "tell me about", "what about", "what is", "what are",
     "apa", "bagaimana", "kenapa", "mengapa", "pendapat",
     "fikir", "pandangan", "terangkan", "beritahu", "macam mana",
     "pasal", "tentang", "berkenaan", "mengenai", "tolong"}

\* isOpinionQuery of the older variant
IsOpinionQuery(t) ==
    LET lowerText == ToLowerCase(t)
    IN  Includes(lowerText, "?") \/ SomeIncluded(lowerText, opinionTriggers)

(***************************************************************************)
(* The responders: BaseIslamicAgent and OpinionAgent                       *)
(***************************************************************************)

\* the specialized responders, in the insertion order of this.agents
Specialists == <<"fatwa", "mazhab", "jakim", "malaysianfatwa", "ibadah">>

\* config.responseThreshold of the specialists, in tenths
ResponseThresholdTenths == 7

\* the outcome of one createChatCompletion: the content of the first choice
\* (data.choices[0]?.message?.content || ''), or a thrown error
Completed(content) == [ok |-> TRUE, content |-> content]

Failed == [ok |-> FALSE, content |-> ""]

\* a JavaScript number in tenths, or NaN
Num(tenths) == [nan |-> FALSE, tenths |-> tenths]

NaN == [nan |-> TRUE, tenths |-> 0]

\* x >= y for a parsed number x: false for NaN
NumAtLeast(x, tenths) == ~x.nan /\ x.tenths >= tenths

\* the value of a run of decimal digits
RECURSIVE DigitsValue(_)
DigitsValue(s) ==
    IF s = "" THEN 0
    ELSE 10 * DigitsValue(Slice(s, 0, Len(s) - 1))
         + IndexOfFrom("0123456789", CharAt(s, Len(s) - 1), 0)

\* the decimal number that starts at index a of s, without its sign
UnsignedTenths(s, a) ==
    LET b == RunEnd(s, a, Digits)
        frac == IF CharAt(s, b) = "." /\ CharAt(s, b + 1) \in Digits
                THEN DigitsValue(CharAt(s, b + 1)) ELSE 0
    IN  IF b = a /\ ~(CharAt(s, a) = "." /\ CharAt(s, a + 1) \in Digits) THEN NaN
        ELSE Num(10 * DigitsValue(Slice(s, a, b)) + frac)

\* the negative of a parsed number
Negated(x) == IF x.nan THEN x ELSE Num(0 - x.tenths)

\* parseFloat(s), in tenths (digits after the first decimal are dropped, an
\* exponent is not read): the longest numeric prefix after leading white
\* space and an optional sign, NaN if there is none
ParseFloatTenths(s) ==
    IF CharAt(s, LeadingSpaces(s, 0)) = "-"
    THEN Negated(UnsignedTenths(s, LeadingSpaces(s, 0) + 1))
    ELSE IF CharAt(s, LeadingSpaces(s, 0)) = "+"
    THEN UnsignedTenths(s, LeadingSpaces(s, 0) + 1)
    ELSE UnsignedTenths(s, LeadingSpaces(s, 0))

\* a JavaScript value with its typeof
JsBoolean(b) == [type |-> "boolean", value |-> b]

\* const relevanceScore = parseFloat(response || '0')
RelevanceScore(content) == ParseFloatTenths(IF content = "" THEN "0" ELSE content)

\* BaseIslamicAgent.shouldRespond, given the outcome of its completion call
ShouldRespond(completion) ==
    IF ~completion.ok THEN JsBoolean(FALSE)
    ELSE JsBoolean(NumAtLeast(RelevanceScore(completion.content), ResponseThresholdTenths))

NoResponseApology == "I apologize, but I could not generate a response at this time."

ErrorApology ==
    "I apologize, but I encountered an error while processing your question. Please try again later."

NoOpinionApology == "I apologize, but I could not generate a comprehensive opinion at this time."

\* the mutant of GenerateResponse: the failure of the call is not caught
GenerateResponseUncaught(completion) ==
    IF completion.content = "" THEN NoResponseApology ELSE completion.content

\* BaseIslamicAgent.generateResponse, given the outcome of its completion call
GenerateResponse(completion) ==
    IF ~completion.ok THEN ErrorApology
    ELSE IF completion.content = "" THEN NoResponseApology
    ELSE completion.content

\* OpinionAgent.generateResponse, given the outcome of its synthesis call (the
\* specialists' generateResponse never throws, so Promise.all resolves)
GenerateOpinion(completion) ==
    IF ~completion.ok THEN ErrorApology
    ELSE IF completion.content = "" THEN NoOpinionApology
    ELSE completion.content

\* OpinionAgent.getAgentType: the labels, by index
AgentTypes ==
    <<"Fatwa Perspective", "Mazhab Analysis", "JAKIM Guidelines",
      "Malaysian Fatwa Council View", "Islamic Practice Context">>

\* return types[index] || 'Additional Perspective', for a 0-based index
GetAgentType(index) ==
    IF index >= 0 /\ index < Len(AgentTypes) THEN AgentTypes[index + 1]
    ELSE "Additional Perspective"

\* the promise of one specialist in the Promise.all of the fan-out: not yet
\* settled
Unsettled == [settled |-> FALSE, type |-> "", response |-> ""]

\* { type: agentType, response: response }, the value the promise of the
\* specialist at a 0-based index settles with
AgentResponse(index, answer) ==
    [settled |-> TRUE, type |-> GetAgentType(index), response |-> answer]

\* the mutant of Settle: the values are collected in the order of arrival
SettleInArrivalOrder(rs, n, r) ==
    LET free == SetMin({k \in DOMAIN rs : ~rs[k].settled})
    IN  [rs EXCEPT ![free] = r]

\* Promise.all: the value of the n-th promise becomes the n-th element
Settle(rs, n, r) == [rs EXCEPT ![n] = r]

\* response.replace(/^###.*$/gm, '').split('\n').filter(line =>
\* line.trim().length > 0): the lines that are kept
RECURSIVE KeptLines(_)
KeptLines(s) ==
    LET nl == IndexOfFrom(s, "\n", 0)
        line == IF nl = -1 THEN s ELSE Slice(s, 0, nl)
        kept == IF StartsWith(line, "###") \/ Trim(line) = "" THEN <<>> ELSE <<line>>
    IN  IF nl = -1 THEN kept ELSE kept \o KeptLines(SliceFrom(s, nl + 1))

\* lines.join(sep)
RECURSIVE Join(_, _)
Join(lines, sep) ==
    IF Len(lines) = 0 THEN ""
    ELSE IF Len(lines) = 1 THEN lines[1]
    ELSE lines[1] \o sep \o Join(Tail(lines), sep)

\* cleanedResponse
CleanResponse(r) == Join(KeptLines(r), "\n")

\* the mutant of Perspectives: a specialist that failed is left out
PerspectivesOfAnswered(rs) ==
    LET answered == SelectSeq(rs, LAMBDA r : r.response # ErrorApology)
    IN  Join([n \in 1..Len(answered) |->
                 answered[n].type \o ":\n" \o CleanResponse(answered[n].response)], "\n\n")

\* the perspectives document: `${type}:\n${cleanedResponse}` of every
\* element of agentResponses, joined by blank lines
Perspectives(rs) ==
    Join([n \in 1..Len(rs) |-> rs[n].type \o ":\n" \o CleanResponse(rs[n].response)], "\n\n")

\* one completion call as the generation service sees it: whose it is and
\* how it ended
Completion(agent, outcome) == [agent |-> agent, outcome |-> outcome]

\* one call of a responder as the router sees it: which responder, for what
\* ("relevance", "generate", "synthesis"), the question and what it returned
Call(agent, kind, q, returned) ==
    [agent |-> agent, kind |-> kind, question |-> q, result |-> returned]

(***************************************************************************)
(* The router: the message:text handler                                    *)
(***************************************************************************)

\* config.groupIds
GroupIds == {"-1001234"}

\* ctx.me.username
MeUsername == "TokAyahBot"

PromptReply == "Yes? How can I help you?"

FallbackReply ==
    "I'm not sure I understand your question. Could you please rephrase it or use one of my commands?\n\nUse /help to see available commands."

\* a ctx.reply call: its text and whether it carries parse_mode 'HTML'
Reply(t, html) == [text |-> t, html |-> html]

\* the texts of the inbound messages
Texts ==
    {"tok ayah, apa hukum solat jumaat",
     "thanks tok ayah",
     "tok ayah",
     "apa hukum solat jumaat",
     "/fatwa apa hukum riba",
     "tok ayah getKeywords hukum riba",
     "@TokAyahBot siapa kamu",
     "Tok Ayah, solat jumaat wajib ke",
     "hello",
     "what is this tok ayah",
     "tok ayah sss",
     "zakat fitrah berapa"}

\* ctx.message.reply_to_message: none, a message of the bot or of another
\* member, with or without text
ReplyTargets ==
    {NoReply,
     [isReply |-> TRUE, fromBot |-> TRUE, hasText |-> TRUE, text |-> "Solat Jumaat wajib."],
     [isReply |-> TRUE, fromBot |-> FALSE, hasText |-> TRUE, text |-> "jumpa esok"],
     [isReply |-> TRUE, fromBot |-> TRUE, hasText |-> FALSE, text |-> ""]}

\* messages of a chat that is not in config.groupIds: a mention by alias, a
\* command and a mention by handle, each alone or as a reply to the bot
ForeignMessages ==
    [chat : {"-1005678"},
     text : {"tok ayah, apa hukum solat jumaat", "/fatwa apa hukum riba", "@TokAyahBot siapa kamu"},
     reply : {NoReply,
              [isReply |-> TRUE, fromBot |-> TRUE, hasText |-> TRUE, text |-> "Solat Jumaat wajib."]}]

Messages == [chat : GroupIds, text : Texts, reply : ReplyTargets] \cup ForeignMessages

\* the mutant of IsAllowedChat: every chat is served
IsAllowedChatAlways(chatId) == TRUE

\* if (ctx.chat?.id && config.groupIds.includes(ctx.chat.id.toString()))
IsAllowedChat(chatId) == chatId # "" /\ chatId \in GroupIds

\* the mutant of ReplyAccepted: every reply is taken up
ReplyAcceptedAlways(isBotMessage, isBotMentioned) == TRUE

\* if (isBotMessage || isBotMentioned)
ReplyAccepted(isBotMessage, isBotMentioned) == isBotMessage \/ isBotMentioned

\* the mutant of ShouldProcess: the mention gate left open
ShouldProcessAlways(isMentioned, isReply) == TRUE

\* if (isMentioned || isReply)
ShouldProcess(isMentioned, isReply) == isMentioned \/ isReply

\* the mutant of IsEmptyQuestion: the empty question is not noticed
IsEmptyQuestionNever(q) == FALSE

\* if (!question.trim())
IsEmptyQuestion(q) == Trim(q) = ""

\* the mutant of SimpleHandled: the canned reply is never taken
SimpleHandledNever(simpleCheck) == FALSE

\* if (simpleCheck.isSimple && simpleCheck.response)
SimpleHandled(simpleCheck) == simpleCheck.isSimple /\ simpleCheck.response # ""

\* `Context: ${repliedMessage.text}\n\nFollow-up: ${questionText}`
WithContext(repliedText, t) == "Context: " \o repliedText \o "\n\nFollow-up: " \o t

\* what the gate decided: the branch, the locals and the reply sent at once
Decision(b, username, qt, q, reply, n) ==
    [branch |-> b, username |-> username, questionText |-> qt, question |-> q,
     replies |-> reply, setups |-> n]

\* The handler of src/src/agent-manager.ts, from its entry to the point
\* where it has ignored the message, answered it at once, or is about to
\* call a responder ("opinion", "score"), in four stages. Last, from the
\* cleaned question q on: the prompt, the canned reply or a responder.
\* (First its mutant: the prompt branch does not return.)
GateQuestionPromptFallsThrough(qt, q, username) ==
    IF SimpleHandled(IsSimpleInteraction(q))
    THEN Decision("simple", username, qt, q,
                  <<Reply(IsSimpleInteraction(q).response, FALSE)>>, 0)
    ELSE IF Includes(ToLowerCase(qt), "getkeywords")
    THEN Decision("opinion", username, qt, q, <<>>, 0)
    ELSE Decision("score", username, qt, q,
                  IF IsEmptyQuestion(q) THEN <<Reply(PromptReply, FALSE)>> ELSE <<>>, 0)

GateQuestion(qt, q, username) ==
    IF IsEmptyQuestion(q)
    THEN Decision("prompt", username, qt, q, <<Reply(PromptReply, FALSE)>>, 0)
    ELSE IF SimpleHandled(IsSimpleInteraction(q))
    THEN Decision("simple", username, qt, q,
                  <<Reply(IsSimpleInteraction(q).response, FALSE)>>, 0)
    ELSE IF Includes(ToLowerCase(qt), "getkeywords")
    THEN Decision("opinion", username, qt, q, <<>>, 0)
    ELSE Decision("score", username, qt, q, <<>>, 0)

\* from isMentioned on: the command branch and the mention gate
GateAddressed(qt, isReply, isMentioned, username) ==
    IF StartsWith(qt, "/")
    THEN Decision("command", username, qt, "", <<>>, Len(Specialists) + 1)
    ELSE IF ~ShouldProcess(isMentioned, isReply)
    THEN Decision("unaddressed", username, qt, "", <<>>, 0)
    ELSE GateQuestion(qt, IF isMentioned THEN RemoveBotMention(qt, username) ELSE qt,
                      username)

\* the questionText a reply is processed with
FollowUp(m) ==
    IF m.reply.hasText /\ m.reply.text # ""
    THEN WithContext(m.reply.text, m.text)
    ELSE m.text

\* from isReply on: the handling of replies
GateReply(m, qt, username) ==
    IF m.reply.isReply /\ ~ReplyAccepted(m.reply.fromBot, IsBotMentioned(m.text, username))
    THEN Decision("replyIgnored", username, m.text, "", <<>>, 0)
    ELSE GateAddressed(qt, m.reply.isReply, IsBotMentioned(qt, username), username)

\* from the entry on: the allow-list and the user name of the bot
Gate(m, cachedUsername) ==
    IF ~IsAllowedChat(m.chat)
    THEN Decision("notAllowed", cachedUsername, "", "", <<>>, 0)
    ELSE GateReply(m,
                   IF m.reply.isReply THEN FollowUp(m) ELSE m.text,
                   IF cachedUsername = "" THEN MeUsername ELSE cachedUsername)

\* The handler of the older variant, likewise: no reply handling, every
\* question goes to the synthesis, and a message that is an opinion query is
\* processed without a mention.  (First the mutant of GateQuestionOlder: the
\* question is routed as in src/src/agent-manager.ts.)
GateQuestionOlderScoring(t, q, username) == GateQuestion(t, q, username)

GateQuestionOlder(t, q, username) ==
    IF IsEmptyQuestion(q)
    THEN Decision("prompt", username, t, q, <<Reply(PromptReply, FALSE)>>, 0)
    ELSE IF SimpleHandled(IsSimpleInteractionOlder(q))
    THEN Decision("simple", username, t, q,
                  <<Reply(IsSimpleInteractionOlder(q).response, FALSE)>>, 0)
    ELSE Decision("opinion", username, t, q, <<>>, 0)

\* the mutant of GateAddressedOlder: no gate, every text is processed
GateAddressedOlderUngated(t, isMentioned, username) ==
    GateQuestionOlder(t, IF isMentioned THEN RemoveBotMention(t, username) ELSE t, username)

\* from isMentioned on: the command branch and the gate of the older variant
GateAddressedOlder(t, isMentioned, username) ==
    IF StartsWith(t, "/")
    THEN Decision("command", username, t, "", <<>>, Len(Specialists) + 1)
    ELSE IF ~(isMentioned \/ IsOpinionQuery(t))
    THEN Decision("unaddressed", username, t, "", <<>>, 0)
    ELSE GateQuestionOlder(t, IF isMentioned THEN RemoveBotMention(t, username) ELSE t,
                           username)

GateUsernameOlder(m, username) ==
    GateAddressedOlder(m.text, IsBotMentioned(m.text, username), username)

GateOlder(m, cachedUsername) ==
    IF ~IsAllowedChat(m.chat)
    THEN Decision("notAllowed", cachedUsername, "", "", <<>>, 0)
    ELSE GateUsernameOlder(m, IF cachedUsername = "" THEN MeUsername ELSE cachedUsername)

\* the commands the responders register with bot.command in setupHandlers
Commands == <<"fatwa", "mazhab", "jakim", "malaysianfatwa", "ibadah", "opinion">>

\* bot.command(name): the update's text is the command, alone or followed by
\* its argument
IsCommand(t, name) == t = "/" \o name \/ StartsWith(t, "/" \o name \o " ")

\* The message:text handler is declared async (ctx) => ..., without the next
\* parameter: on no branch does it hand the update to the middleware
\* registered after it.
CallsNext(b) == FALSE

\* bot.on('message', async (ctx, next) => ...): next() for a text with '/'
PassesCommand(t) == StartsWith(t, "/")

\* The middleware that run for a text message, in registration order: the
\* message:text handler, then, if it calls next, the message pass-through and
\* behind it the command handlers of the responders, which are named here
\* and whose bodies no update reaches.
Chain(t, b) ==
    <<"message:text">>
    \o (IF CallsNext(b)
        THEN <<"message">>
             \o (IF PassesCommand(t)
                 THEN SelectSeq(Commands, LAMBDA name : IsCommand(t, name))
                 ELSE <<>>)
        ELSE <<>>)

\* a text message of a chat arrives and the middleware chain hands it to the
\* message:text handler; what the previous invocation left behind is dropped.
\* No bot.catch is installed: after an error that left a handler the bot has
\* stopped polling and no further message is delivered.
Receive ==
    /\ life = "polling"
    /\ pc = "idle"
    /\ ~uncaught
    /\ \E m \in Messages : msg' = m
    /\ pc' = "handle"
    /\ questionText' = ""
    /\ question' = ""
    /\ branch' = "none"
    /\ replies' = <<>>
    /\ calls' = <<>>
    /\ setups' = 0
    /\ chain' = <<>>
    /\ scoreIdx' = 1
    /\ bestAgent' = NoAgent
    /\ highestRelevance' = 0
    /\ agentResponses' = <<>>
    /\ completions' = <<>>
    /\ perspectives' = ""
    /\ response' = ""
    /\ formatted' = ""
    /\ text' = ""
    /\ chunks' = <<>>
    /\ pcRender' = "idle"
    /\ UNCHANGED <<variant, botUsername, uncaught>>
    /\ ProcessAlive
    /\ UNCHANGED lifeVars

\* await ctx.reply(...) outside every try: whether the error of a failed
\* reply leaves the handler; the transport may fail any reply
Thrown(tried) == IF tried = <<>> THEN {FALSE} ELSE BOOLEAN

\* the state of a handler invocation after its gate decided d
Enter(d) ==
    /\ botUsername' = d.username
    /\ questionText' = d.questionText
    /\ question' = d.question
    /\ branch' = d.branch
    /\ replies' = d.replies
    /\ setups' = d.setups
    /\ chain' = Chain(msg.text, d.branch)
    /\ uncaught' \in Thrown(d.replies)
    /\ pc' = IF d.branch \in {"opinion", "score"} THEN d.branch ELSE "idle"
    /\ UNCHANGED <<variant, msg, calls, scoreIdx, bestAgent, highestRelevance>>
    /\ UNCHANGED opinionVars
    /\ UNCHANGED renderVars
    /\ ProcessAlive
    /\ UNCHANGED lifeVars

\* bot.on('message:text') of src/src/agent-manager.ts
OnMessageText ==
    /\ pc = "handle"
    /\ variant = "specialist"
    /\ \E d \in {Gate(msg, botUsername)} : Enter(d)

\* bot.on('message:text') of the older variant
OnMessageTextOlder ==
    /\ pc = "handle"
    /\ variant = "synthesize"
    /\ \E d \in {GateOlder(msg, botUsername)} : Enter(d)

\* what the relevance completion may return
ScoreCompletions == {Completed("0.9"), Completed("0.3"), Completed("high"), Failed}

\* what a specialist's answer completion may return
GenCompletions == {Completed("Solat Jumaat **wajib** bagi lelaki."), Failed}

\* what the five answer completions of one synthesis may return: all answer,
\* none does, or all but the first
GenOutcomes ==
    {[n \in 1..Len(Specialists) |-> Completed("Solat Jumaat **wajib** bagi lelaki.")],
     [n \in 1..Len(Specialists) |-> Failed],
     [n \in 1..Len(Specialists) |->
         IF n = 1 THEN Failed ELSE Completed("Solat Jumaat **wajib** bagi lelaki.")]}

\* what the synthesis completion may return
SynthCompletions ==
    {Completed("### Ringkasan\n**Wajib** bagi lelaki. Rujuk *mufti*."),
     Completed(""), Completed(" "), Completed(Rep("a", 5000)), Failed}

\* one pass of the for loop over this.agents: shouldRespond of the next
\* specialist and the comparison with highestRelevance
ScoreStep ==
    /\ pc = "score"
    /\ scoreIdx <= Len(Specialists)
    /\ \E c \in ScoreCompletions :
          LET relevanceScore == ShouldRespond(c)
              better == /\ relevanceScore.type = "number"
                        /\ relevanceScore.value > highestRelevance
          IN  /\ calls' = Append(calls, Call(Specialists[scoreIdx], "relevance", question, relevanceScore))
              /\ bestAgent' = IF better THEN Specialists[scoreIdx] ELSE bestAgent
              /\ highestRelevance' = IF better THEN relevanceScore.value ELSE highestRelevance
    /\ scoreIdx' = scoreIdx + 1
    /\ UNCHANGED <<variant, botUsername, msg, pc, questionText, question, branch, replies, setups, chain, uncaught>>
    /\ UNCHANGED opinionVars
    /\ UNCHANGED renderVars
    /\ ProcessAlive
    /\ UNCHANGED lifeVars

\* after the loop: if (bestAgent) generate and render, else the fallback reply
ScoreDone ==
    /\ pc = "score"
    /\ scoreIdx > Len(Specialists)
    /\ IF bestAgent # NoAgent
       THEN /\ \E c \in GenCompletions :
                  /\ calls' = Append(calls, Call(bestAgent, "generate", question, GenerateResponse(c)))
                  /\ response' = GenerateResponse(c)
            /\ branch' = "specialist"
            /\ pc' = "render"
            /\ pcRender' = "format"
            /\ UNCHANGED <<replies, uncaught>>
       ELSE /\ replies' = Append(replies, Reply(FallbackReply, FALSE))
            /\ uncaught' \in Thrown(replies')
            /\ branch' = "fallback"
            /\ pc' = "idle"
            /\ UNCHANGED <<calls, response, pcRender>>
    /\ UNCHANGED <<variant, botUsername, msg, questionText, question, setups, chain, scoreIdx,
                   bestAgent, highestRelevance, formatted, text, chunks>>
    /\ UNCHANGED opinionVars
    /\ ProcessAlive
    /\ UNCHANGED lifeVars

\* opinionAgent.generateResponse(question): every specialist's generateResponse,
\* then the synthesis call
OpinionStep ==
    /\ pc = "opinion"
    /\ \E gens \in GenOutcomes, synth \in SynthCompletions :
          /\ calls' = calls
                \o [n \in 1..Len(Specialists) |->
                       Call(Specialists[n], "generate", question, GenerateResponse(gens[n]))]
                \o <<Call("opinion", "synthesis", question, GenerateOpinion(synth))>>
          /\ completions' =
                [n \in 1..Len(Specialists) |-> Completion(Specialists[n], gens[n])]
                \o <<Completion("opinion", synth)>>
          /\ \E rs \in {[n \in 1..Len(Specialists) |->
                            AgentResponse(n - 1, GenerateResponse(gens[n]))]} :
                /\ agentResponses' = rs
                /\ perspectives' = Perspectives(rs)
          /\ response' = GenerateOpinion(synth)
    /\ pc' = "render"
    /\ pcRender' = "format"
    /\ UNCHANGED <<variant, botUsername, msg, questionText, question, branch, replies, setups,
                   chain, uncaught, scoreIdx, bestAgent, highestRelevance, formatted, text,
                   chunks>>
    /\ ProcessAlive
    /\ UNCHANGED lifeVars

\* The same call step by step, the specialists' completion calls returning
\* in any order. First the fan-out: Promise.all(this.otherAgents.map(...))
\* starts generateResponse of every specialist.
FanOut ==
    /\ pc = "opinion"
    /\ agentResponses' = [n \in 1..Len(Specialists) |-> Unsettled]
    /\ pc' = "fanout"
    /\ UNCHANGED <<variant, botUsername, msg, questionText, question, branch, replies, calls,
                   setups, chain, uncaught, scoreIdx, bestAgent, highestRelevance, completions,
                   perspectives>>
    /\ UNCHANGED renderVars
    /\ ProcessAlive
    /\ UNCHANGED lifeVars

\* what the answer completion of the n-th specialist may return
AnswerCompletions(n) ==
    {Completed("### Jawapan " \o Specialists[n] \o "\n\nHukumnya **wajib** menurut "
               \o Specialists[n] \o "."),
     Failed}

\* the completion call of one specialist returns or fails, its
\* generateResponse returns and its promise settles
SpecialistSettles ==
    /\ pc = "fanout"
    /\ \E n \in DOMAIN agentResponses :
          /\ ~agentResponses[n].settled
          /\ \E c \in AnswerCompletions(n) :
                /\ agentResponses' =
                      Settle(agentResponses, n, AgentResponse(n - 1, GenerateResponse(c)))
                /\ completions' = Append(completions, Completion(Specialists[n], c))
                /\ calls' = Append(calls, Call(Specialists[n], "generate", question,
                                               GenerateResponse(c)))
    /\ UNCHANGED <<variant, botUsername, msg, pc, questionText, question, branch, replies,
                   setups, chain, uncaught, scoreIdx, bestAgent, highestRelevance, perspectives>>
    /\ UNCHANGED renderVars
    /\ ProcessAlive
    /\ UNCHANGED lifeVars

\* Promise.all has resolved: perspectives is built, the synthesis call is
\* made and generateResponse returns
Synthesize ==
    /\ pc = "fanout"
    /\ \A n \in DOMAIN agentResponses : agentResponses[n].settled
    /\ perspectives' = Perspectives(agentResponses)
    /\ \E synth \in SynthCompletions :
          /\ completions' = Append(completions, Completion("opinion", synth))
          /\ calls' = Append(calls, Call("opinion", "synthesis", question, GenerateOpinion(synth)))
          /\ response' = GenerateOpinion(synth)
    /\ pc' = "returned"
    /\ UNCHANGED <<variant, botUsername, msg, questionText, question, branch, replies, setups,
                   chain, uncaught, scoreIdx, bestAgent, highestRelevance, agentResponses>>
    /\ UNCHANGED <<formatted, text, chunks, pcRender>>
    /\ ProcessAlive
    /\ UNCHANGED lifeVars

FormattingApology == "I apologize, but I encountered an error while formatting the response."

\* The ctx.reply calls made when the chunk reply after the first sent ones
\* throws: in src/src/agent-manager.ts the catch of
\* replyWithFormattedResponse replies with its apology and, if that reply
\* throws too, the catch of the generation branch with the other; the older
\* variant has the catch of the generation branch only.  (First the mutant
\* of Apologies: the formatting apology is replied twice.)
ApologiesRepeated(v, innerThrows) ==
    <<Reply(FormattingApology, FALSE), Reply(FormattingApology, FALSE)>>

Apologies(v, innerThrows) ==
    IF v = "specialist"
    THEN <<Reply(FormattingApology, FALSE)>>
         \o (IF innerThrows THEN <<Reply(ErrorApology, FALSE)>> ELSE <<>>)
    ELSE <<Reply(ErrorApology, FALSE)>>

\* for (const chunk of chunks) await ctx.reply(chunk, { parse_mode: 'HTML' }),
\* with the catch blocks around it: all chunks are sent, or the reply after
\* the first sent ones throws and the apologies are tried; the error of the
\* last apology is not caught
SendChunks ==
    /\ pc = "render"
    /\ pcRender = "done"
    /\ \E sent \in 0..Len(chunks), innerThrows \in BOOLEAN, lastThrows \in BOOLEAN :
          IF sent = Len(chunks)
          THEN /\ replies' = replies \o [n \in 1..Len(chunks) |-> Reply(chunks[n], TRUE)]
               /\ uncaught' = FALSE
          ELSE /\ replies' = replies \o [n \in 1..(sent + 1) |-> Reply(chunks[n], TRUE)]
                                \o Apologies(variant, innerThrows)
               /\ uncaught' = ((variant = "specialist" => innerThrows) /\ lastThrows)
    /\ pc' = "idle"
    /\ UNCHANGED <<variant, botUsername, msg, questionText, question, branch, calls, setups,
                   chain, scoreIdx, bestAgent, highestRelevance>>
    /\ UNCHANGED opinionVars
    /\ UNCHANGED renderVars
    /\ ProcessAlive
    /\ UNCHANGED lifeVars

Init ==
    /\ variant = "specialist"
    /\ RouterIdle
    /\ Serving
    /\ response = ""
    /\ formatted = ""
    /\ text = ""
    /\ chunks = <<>>
    /\ pcRender = "idle"

Next ==
    \/ Receive
    \/ OnMessageText
    \/ ScoreStep
    \/ ScoreDone
    \/ OpinionStep
    \/ FormatStep
    \/ SplitExit
    \/ SplitLast
    \/ SplitCut
    \/ SendChunks

\* the bot of src/src/agent-manager.ts
Spec == Init /\ [][Next]_vars

InitVariants ==
    /\ variant \in {"specialist", "synthesize"}
    /\ RouterIdle
    /\ Serving
    /\ response = ""
    /\ formatted = ""
    /\ text = ""
    /\ chunks = <<>>
    /\ pcRender = "idle"

NextVariants ==
    \/ Next
    \/ OnMessageTextOlder

\* the bot in either of its two routing variants
SpecVariants == InitVariants /\ [][NextVariants]_vars

\* opinionAgent.generateResponse is entered with a question
InitOpinion ==
    /\ variant = "specialist"
    /\ Serving
    /\ botUsername = MeUsername
    /\ msg = [chat |-> "-1001234", text |-> "tok ayah getKeywords hukum riba", reply |-> NoReply]
    /\ pc = "opinion"
    /\ questionText = msg.text
    /\ question = "getKeywords hukum riba"
    /\ branch = "opinion"
    /\ replies = <<>>
    /\ calls = <<>>
    /\ setups = 0
    /\ chain = <<"message:text">>
    /\ uncaught = FALSE
    /\ scoreIdx = 1
    /\ bestAgent = NoAgent
    /\ highestRelevance = 0
    /\ agentResponses = <<>>
    /\ completions = <<>>
    /\ perspectives = ""
    /\ response = ""
    /\ formatted = ""
    /\ text = ""
    /\ chunks = <<>>
    /\ pcRender = "idle"

NextOpinion ==
    \/ FanOut
    \/ SpecialistSettles
    \/ Synthesize

\* OpinionAgent.generateResponse with its concurrent specialist calls
SpecOpinion == InitOpinion /\ [][NextOpinion]_vars

\* a method of a responder is about to be called on its own
InitUnits ==
    /\ variant = "specialist"
    /\ Serving
    /\ botUsername = MeUsername
    /\ msg = NoMsg
    /\ pc = "unit"
    /\ questionText = ""
    /\ question = ""
    /\ branch = "none"
    /\ replies = <<>>
    /\ calls = <<>>
    /\ setups = 0
    /\ chain = <<>>
    /\ uncaught = FALSE
    /\ scoreIdx = 1
    /\ bestAgent = NoAgent
    /\ highestRelevance = 0
    /\ agentResponses = <<>>
    /\ completions = <<>>
    /\ perspectives = ""
    /\ response = ""
    /\ formatted = ""
    /\ text = ""
    /\ chunks = <<>>
    /\ pcRender = "idle"

\* what the relevance completion may return: numbers in and out of range,
\* text around or instead of a number, nothing, or an error
UnitScoreCompletions ==
    {Completed(c) : c \in {"0", "0.3", "0.69", "0.7", "0.9", "1", "1.0", "85", "-0.5", "+0.8",
                            " 0.8", ".9", "0.8 (relevant)", "Relevance: 0.9", "high", ""}}
    \cup {Failed}

\* what the answer completion may return
UnitGenCompletions ==
    {Completed(c) : c \in {"Solat Jumaat **wajib** bagi lelaki.", "### Hukum\n\nWajib.\n",
                            " ", "", "0"}}
    \cup {Failed}

UnitQuestions == {"apa hukum solat jumaat", "zakat fitrah berapa"}

\* agent.shouldRespond(message) of a specialist, with its completion call
Score ==
    /\ pc = "unit"
    /\ \E n \in 1..Len(Specialists), q \in UnitQuestions, c \in UnitScoreCompletions :
          /\ question' = q
          /\ completions' = <<Completion(Specialists[n], c)>>
          /\ calls' = <<Call(Specialists[n], "relevance", q, ShouldRespond(c))>>
    /\ pc' = "scored"
    /\ UNCHANGED <<variant, botUsername, msg, questionText, branch, replies, setups, chain,
                   uncaught, scoreIdx, bestAgent, highestRelevance, agentResponses,
                   perspectives>>
    /\ UNCHANGED renderVars
    /\ ProcessAlive
    /\ UNCHANGED lifeVars

\* agent.generateResponse(question) of a specialist, with its completion call
Generate ==
    /\ pc = "unit"
    /\ \E n \in 1..Len(Specialists), q \in UnitQuestions, c \in UnitGenCompletions :
          /\ question' = q
          /\ completions' = <<Completion(Specialists[n], c)>>
          /\ calls' = <<Call(Specialists[n], "generate", q, GenerateResponse(c))>>
    /\ pc' = "generated"
    /\ UNCHANGED <<variant, botUsername, msg, questionText, branch, replies, setups, chain,
                   uncaught, scoreIdx, bestAgent, highestRelevance, agentResponses,
                   perspectives>>
    /\ UNCHANGED renderVars
    /\ ProcessAlive
    /\ UNCHANGED lifeVars

\* the texts removeBotMention is called with: the texts of the messages,
\* and the user name or an alias inside a word, before commas, in capitals,
\* at the end, or before words that begin with the letter s
StripTexts ==
    Texts \cup
    {"xTokAyahBoty apa hukum", "tokayahku sakit", "TOK AYAH,, , apa hukum riba",
     "@tokayahbot, apa hukum riba", "  tok ayah  ", "saya nak tanya tok ayah",
     "tok ayah, s saya nak tanya", "tok ayah solat sunat", "tok ayah ss", "",
     "TokAyahBot apa hukum riba", "tok ayah\n\napa hukum riba", "apa, tok ayoh, hukum riba",
     "tok ayah @TokAyahBot tokaya"}

\* this.removeBotMention(text)
Strip ==
    /\ pc = "unit"
    /\ \E t \in StripTexts :
          /\ questionText' = t
          /\ question' = RemoveBotMention(t, botUsername)
    /\ pc' = "stripped"
    /\ UNCHANGED <<variant, botUsername, msg, branch, replies, calls, setups, chain, uncaught,
                   scoreIdx, bestAgent, highestRelevance>>
    /\ UNCHANGED opinionVars
    /\ UNCHANGED renderVars
    /\ ProcessAlive
    /\ UNCHANGED lifeVars

\* this.removeBotMention applied to its own result
StripAgain ==
    /\ pc = "stripped"
    /\ questionText' = question
    /\ question' = RemoveBotMention(question, botUsername)
    /\ pc' = "restripped"
    /\ UNCHANGED <<variant, botUsername, msg, branch, replies, calls, setups, chain, uncaught,
                   scoreIdx, bestAgent, highestRelevance>>
    /\ UNCHANGED opinionVars
    /\ UNCHANGED renderVars
    /\ ProcessAlive
    /\ UNCHANGED lifeVars

\* the texts isSimpleInteraction is called with: texts of one category, of
\* several, and of none
SimpleTexts ==
    {"Good morning", "good morning, thanks", "morning or night", "Good night, hello",
     "hi, thank you", "Hello! who are you", "what is this", "terima kasih", "thanks for the help",
     "test", "TRY", " check ", "testing thanks", "check help", "cuba tolong",
     "who  r  u", "who are you? help", "Thanks, introduce yourself", "apa nama",
     "help", "help, are you there", "what can you do, are you ok tak",
     "are you there", "working?", "masih ada", "intro, you there",
     "apa hukum riba", "zakat fitrah berapa", "solat jumaat"}

\* this.isSimpleInteraction(question), called on its own
Classify ==
    /\ pc = "unit"
    /\ \E t \in SimpleTexts : \E simpleCheck \in {IsSimpleInteraction(t)} :
          /\ question' = t
          /\ branch' = IF simpleCheck.isSimple THEN "simple" ELSE "none"
          /\ replies' = IF simpleCheck.isSimple
                        THEN <<Reply(simpleCheck.response, FALSE)>>
                        ELSE <<>>
    /\ pc' = "classified"
    /\ UNCHANGED <<variant, botUsername, msg, questionText, calls, setups, chain, uncaught,
                   scoreIdx, bestAgent, highestRelevance>>
    /\ UNCHANGED opinionVars
    /\ UNCHANGED renderVars
    /\ ProcessAlive
    /\ UNCHANGED lifeVars

NextUnits ==
    \/ Score
    \/ Generate
    \/ Strip
    \/ StripAgain
    \/ Classify

\* the methods of the responders and of the router, each called on its own
SpecUnits == InitUnits /\ [][NextUnits]_vars

(***************************************************************************)
(* Properties of the router and of the rendering                           *)
(***************************************************************************)

\* C1: in the per-specialist mode the 'rephrase or use a command' fallback
\* reply is sent only when no specialist's relevance met its threshold; if
\* one qualifies, its generateResponse is called.
C1_FallbackOnlyIfNoneQualifies ==
    (pc = "idle" /\ branch = "fallback") =>
        \A n \in 1..Len(calls) :
            calls[n].kind = "relevance" => calls[n].result # JsBoolean(TRUE)

\* C2: every iteration of the loop of splitResponse that cuts a chunk off
\* strictly shortens the remaining text, also after the continuation prefix
\* was prepended, so that the loop ends.
C2_EachCutShortensText == [][SplitCut => Len(text') < Len(text)]_vars

\* C3: the string formatResponseForTelegram returns holds no unmatched or
\* mis-nested <b>/<i> tag, whatever the input.
C3_FormattedHasNoUnmatchedTag ==
    pcRender \in {"split", "done"} => IsValidTags(formatted)

\* C4 as stated: every chunk splitResponse returns, markers included, is at
\* most MAX_LENGTH characters long.
C4_ChunkWithinMaxLength ==
    \A n \in 1..Len(chunks) : Len(chunks[n]) <= MAX_LENGTH

\* C4, amended: every chunk is at most MAX_LENGTH characters plus the
\* continued-marker appended to it, and a chunk that carries no such marker
\* is at most MAX_LENGTH characters long.
C4_ChunkWithinMaxLengthPlusMarker ==
    \A n \in 1..Len(chunks) :
        /\ Len(chunks[n]) <= MAX_LENGTH + Len(ContinuedSuffix)
        /\ ~EndsWith(chunks[n], ContinuedSuffix) => Len(chunks[n]) <= MAX_LENGTH

\* C4's case: splitResponse has returned and a chunk with its marker is
\* longer than MAX_LENGTH.
C4_Witness ==
    /\ pcRender = "done"
    /\ \E n \in 1..Len(chunks) :
          Len(chunks[n]) > MAX_LENGTH /\ EndsWith(chunks[n], ContinuedSuffix)

\* C5: every chunk splitResponse returns for a formatted text that passed
\* the validator is valid markup by itself.
C5_EachChunkValidMarkup ==
    (pcRender = "done" /\ IsValidTags(formatted)) =>
        \A n \in 1..Len(chunks) : IsValidTags(chunks[n])

\* C6: 'tok ayah, apa hukum solat jumaat' from an allowed chat has the
\* residual 'apa hukum solat jumaat', is no trivial interaction and is
\* answered by one answer-generation call, of the fatwa responder.
C6_ScenarioAnsweredByFatwa ==
    (/\ pc = "idle"
     /\ msg = [chat |-> "-1001234", text |-> "tok ayah, apa hukum solat jumaat",
               reply |-> NoReply]) =>
        /\ question = "apa hukum solat jumaat"
        /\ ~IsSimpleInteraction(question).isSimple
        /\ \E n \in 1..Len(calls) :
              /\ calls[n].kind = "generate"
              /\ calls[n].agent = "fatwa"
              /\ \A k \in 1..Len(calls) : calls[k].kind = "generate" => k = n

\* C7: a processed message whose question is empty after the mention was
\* stripped gets the prompt reply and no responder is called; no responder
\* is ever called with an empty or whitespace-only question.
C7_EmptyQuestionPrompted ==
    /\ (/\ pc \in {"idle", "score", "opinion", "render"}
        /\ branch \in {"prompt", "simple", "opinion", "score", "fallback", "specialist"}
        /\ Trim(question) = "") =>
           /\ branch = "prompt"
           /\ replies = <<Reply(PromptReply, FALSE)>>
           /\ calls = <<>>
    /\ \A n \in 1..Len(calls) : Trim(calls[n].question) # ""

\* C7's case: 'tok ayah' alone was handled and prompted for a question.
C7_Witness ==
    /\ pc = "idle"
    /\ msg.text = "tok ayah"
    /\ branch = "prompt"
    /\ question = ""
    /\ replies = <<Reply(PromptReply, FALSE)>>

\* C8: whenever isSimpleInteraction matches the question of a processed
\* message, exactly the canned reply of the matched category is sent and no
\* responder is called; 'thanks tok ayah' gets the thanks reply.
C8_SimpleGetsCannedReply ==
    /\ (/\ pc \in {"idle", "score", "opinion", "render"}
        /\ branch \in {"prompt", "simple", "opinion", "score", "fallback", "specialist"}
        /\ Trim(question) # ""
        /\ IsSimpleInteraction(question).isSimple) =>
           /\ replies = <<Reply(IsSimpleInteraction(question).response, FALSE)>>
           /\ calls = <<>>
    /\ (/\ pc = "idle"
        /\ msg = [chat |-> "-1001234", text |-> "thanks tok ayah", reply |-> NoReply]) =>
           /\ replies = <<Reply(ThanksReply, FALSE)>>
           /\ calls = <<>>

\* C8's case: 'thanks tok ayah' was handled as a trivial interaction.
C8_Witness ==
    /\ pc = "idle"
    /\ msg.text = "thanks tok ayah"
    /\ branch = "simple"
    /\ question = "thanks"
    /\ replies = <<Reply(ThanksReply, FALSE)>>

C10_ReplyHandling ==
    (msg.chat \in GroupIds /\ msg.reply.isReply) =>
        IF ~msg.reply.fromBot /\ ~IsBotMentioned(msg.text, MeUsername)
        THEN /\ replies = <<>>
             /\ calls = <<>>
             /\ setups = 0
             /\ pc \in {"handle", "idle"}
        ELSE pc # "handle" =>
             /\ branch # "replyIgnored"
             /\ questionText = IF msg.reply.hasText
                               THEN "Context: " \o msg.reply.text
                                       \o "\n\nFollow-up: " \o msg.text
                               ELSE msg.text
             /\ (branch \notin {"command", "unaddressed"}) =>
                   question = IF IsBotMentioned(questionText, MeUsername)
                              THEN RemoveBotMention(questionText, MeUsername)
                              ELSE questionText
             /\ \A n \in 1..Len(calls) : calls[n].question = question

\* C10's case: a reply to a message of the bot, with no mention in it, went
\* through the relevance scoring with the replied text as its context.
C10_Witness ==
    /\ pc = "idle"
    /\ msg.reply.isReply
    /\ msg.reply.fromBot
    /\ msg.reply.hasText
    /\ msg.text = "zakat fitrah berapa"
    /\ questionText = "Context: Solat Jumaat wajib.\n\nFollow-up: zakat fitrah berapa"
    /\ Len(calls) = Len(Specialists)

\* C11: a message from an allowed chat whose text starts with '/' reaches
\* the command handler of the responder it names, which answers it, and the
\* mention gate, the address stripping, the trivial matcher and the
\* relevance routing are not executed for it.
C11_CommandReachesCommandHandler ==
    (pc = "idle" /\ chain # <<>> /\ msg.chat \in GroupIds /\ StartsWith(msg.text, "/")
        /\ ~msg.reply.isReply)
    => /\ \E n \in 1..Len(Commands) :
             /\ IsCommand(msg.text, Commands[n])
             /\ \E k \in 1..Len(chain) : chain[k] = Commands[n]
       /\ replies # <<>>
       /\ branch = "command"
       /\ question = ""
       /\ calls = <<>>

\* C12: a message of a chat that is not in the allow-list never produces a
\* reply, a responder call or a handler registration, whatever its text and
\* whatever it replies to, in either routing variant.
C12_ForeignChatSilent ==
    (msg.chat \notin GroupIds)
    => /\ replies = <<>>
       /\ calls = <<>>
       /\ setups = 0
       /\ pc \in {"idle", "handle"}
       /\ branch \in {"none", "notAllowed"}

\* a mention sent as a reply to the bot in a chat outside the allow-list has
\* been handled
C12_Witness ==
    /\ pc = "idle"
    /\ chain # <<>>
    /\ branch = "notAllowed"
    /\ msg.chat \notin GroupIds
    /\ msg.reply.fromBot
    /\ IsBotMentioned(msg.text, MeUsername)

(***************************************************************************)
(* Properties of the synthesis                                             *)
(***************************************************************************)

\* the parts of a document that blank lines separate
RECURSIVE SectionsOf(_)
SectionsOf(s) ==
    LET i == IndexOfFrom(s, "\n\n", 0)
    IN  IF i = -1 THEN <<s>> ELSE <<Slice(s, 0, i)>> \o SectionsOf(SliceFrom(s, i + 2))

\* the specialists whose completion call of the fan-out failed
FailedSpecialists ==
    {n \in 1..Len(Specialists) :
        \E k \in DOMAIN completions :
            completions[k].agent = Specialists[n] /\ ~completions[k].outcome.ok}

\* C13: whichever of the N specialists' completion calls fail, the fan-out
\* of OpinionAgent.generateResponse completes, the perspectives handed to
\* the synthesis call have exactly N labeled sections, the section of a
\* failed specialist being its apology, and the call returns a non-empty
\* string, which is the fixed apology when the synthesis call itself fails.
C13_FanOutSurvivesFailures ==
    (pc = "returned")
    => /\ Len(completions) = Len(Specialists) + 1
       /\ \E sections \in {SectionsOf(perspectives)} :
             /\ Len(sections) = Len(Specialists)
             /\ \A n \in 1..Len(Specialists) :
                   /\ \E t \in 0..(Len(AgentTypes) - 1) :
                         StartsWith(sections[n], GetAgentType(t) \o ":\n")
                   /\ n \in FailedSpecialists
                         => EndsWith(sections[n], ":\n" \o ErrorApology)
       /\ response # ""
       /\ ~completions[Len(completions)].outcome.ok => response = ErrorApology

\* the synthesis was reached and failed after some, but not all, of the
\* specialists had failed
C13_Witness ==
    /\ pc = "returned"
    /\ FailedSpecialists # {}
    /\ FailedSpecialists # 1..Len(Specialists)
    /\ ~completions[Len(completions)].outcome.ok
    /\ response = ErrorApology

\* C14: in whatever order the specialists' calls complete, the perspectives
\* list the answers in the declared order of the specialists, each under the
\* label of the specialist that gave it (by index, 'Additional Perspective'
\* beyond the fifth), and the synthesis call is made only after all N calls
\* have completed.
C14_PerspectivesInDeclaredOrder ==
    /\ GetAgentType(Len(AgentTypes)) = "Additional Perspective"
    /\ \A k \in DOMAIN calls :
          calls[k].kind = "synthesis"
          => \A n \in 1..Len(Specialists) :
                 \E j \in 1..(k - 1) :
                     calls[j].agent = Specialists[n] /\ calls[j].kind = "generate"
    /\ (pc = "returned")
       => \E sections \in {SectionsOf(perspectives)} :
              \A n \in 1..Len(Specialists) :
                  \A k \in DOMAIN calls :
                      calls[k].agent = Specialists[n]
                      => sections[n] = AgentTypes[n] \o ":\n" \o CleanResponse(calls[k].result)

\* every specialist answered, the last of them first and the first of them
\* last, and the synthesis was made
C14_Witness ==
    /\ pc = "returned"
    /\ FailedSpecialists = {}
    /\ calls[1].agent = Specialists[Len(Specialists)]
    /\ calls[Len(Specialists)].agent = Specialists[1]
    /\ calls[Len(Specialists) + 1].kind = "synthesis"

(***************************************************************************)
(* Properties of the error handling                                        *)
(***************************************************************************)

\* C15: in the branches of the handler that generate an answer, no error of
\* generating or sending it leaves the handler: the handling of a message
\* never ends with an uncaught error.
C15_NoErrorLeavesGenerationBranch ==
    (branch \in {"opinion", "specialist"}) => ~uncaught

\* C16: generateResponse of a specialist makes exactly one completion call
\* and returns to its caller whatever the call does: the text of the
\* completion as it is when the call succeeds with a non-empty text, and a
\* fixed apology when the call fails.
C16_GenerateReturnsTextOrApology ==
    (pc = "generated")
    => /\ Len(completions) = 1
       /\ Len(calls) = 1
       /\ calls[1].agent = completions[1].agent
       /\ (completions[1].outcome.ok /\ completions[1].outcome.content # "")
             => calls[1].result = completions[1].outcome.content
       /\ ~completions[1].outcome.ok => calls[1].result = ErrorApology
       /\ calls[1].result # ""

\* a failed completion call was answered with the apology
C16_Witness ==
    /\ pc = "generated"
    /\ ~completions[1].outcome.ok
    /\ calls[1].result = ErrorApology

\* C17: the relevance scoring of a responder never throws, the score it
\* computes is a number in [0,1], it is 0.0 when the completion call fails
\* or its text has no number, and then the responder does not qualify.
C17_ScoreInUnitInterval ==
    (pc = "scored")
    => /\ Len(calls) = 1
       /\ completions[1].outcome.ok
             => /\ ~RelevanceScore(completions[1].outcome.content).nan
                /\ RelevanceScore(completions[1].outcome.content).tenths \in 0..10
       /\ ~completions[1].outcome.ok => calls[1].result = JsBoolean(FALSE)

(***************************************************************************)
(* Properties of removeBotMention                                          *)
(***************************************************************************)

\* t without the occurrences of the user name and of the aliases that stand
\* on word boundaries, each with the commas and white space that follow it,
\* trimmed
StrippedOnBoundaries(t, username) ==
    Trim(RemoveMatches(RemoveMatches(t, <<"@" \o ToLowerCase(username)>>, FALSE,
                                     CommaSpaceClass),
                       <<ToLowerCase(username)>> \o tokAyahVariations, TRUE, CommaSpaceClass))

\* C18: removeBotMention returns its input without the occurrences of the
\* user name and of the aliases that stand on word boundaries, each with the
\* commas and white space after it, and trimmed; an occurrence inside a word
\* stays, and no other character is removed or moved.
C18_StripsExactlyAddressedOccurrences ==
    (pc = "stripped") => question = StrippedOnBoundaries(questionText, botUsername)

\* C19: removeBotMention is idempotent: applied to a result of its own that
\* contains no further user name or alias, it returns that result.
C19_StripIsIdempotent ==
    (pc = "restripped" /\ ~IsBotMentioned(questionText, botUsername))
    => question = questionText

(***************************************************************************)
(* Properties of the chunks as a whole                                     *)
(***************************************************************************)

\* the n-th of the chunks cs without the markers the loop added to it: the
\* prefix on every chunk but the first, the suffix on every chunk but the last
Core(cs, n) ==
    LET c == cs[n]
        a == IF n > 1 /\ StartsWith(c, ContinuationPrefix)
             THEN SliceFrom(c, Len(ContinuationPrefix)) ELSE c
    IN  IF n < Len(cs) /\ EndsWith(a, ContinuedSuffix)
        THEN Slice(a, 0, Len(a) - Len(ContinuedSuffix)) ELSE a

\* the chunks without their markers, concatenated
RECURSIVE ConcatCores(_, _)
ConcatCores(cs, n) ==
    IF n > Len(cs) THEN "" ELSE Core(cs, n) \o ConcatCores(cs, n + 1)

\* from index i on, t is the chunks n, n+1, ... without their markers, in
\* order, with nothing but white space between one and the next
RECURSIVE ReassemblesFrom(_, _, _, _)
ReassemblesFrom(t, i, cs, n) ==
    IF n > Len(cs) THEN i = Len(t)
    ELSE /\ StartsWithAt(t, Core(cs, n), i)
         /\ ReassemblesFrom(t, IF n < Len(cs) THEN LeadingSpaces(t, i + Len(Core(cs, n)))
                                ELSE i + Len(Core(cs, n)),
                            cs, n + 1)

\* C20: the chunks splitResponse returns, without the continuation markers
\* and concatenated in order, are the text it was given, character by
\* character, white space at the break points included.
C20_ChunksReproduceText ==
    (pcRender = "done") => ConcatCores(chunks, 1) = formatted

\* C20, as the code has it: the chunks splitResponse returns, without the
\* continuation markers and in order, are the text it was given except for
\* white space at the break points, which the trim of the remainder drops;
\* no other character is lost, duplicated or moved.
C20_ChunksReproduceTextButBreakSpace ==
    (pcRender = "done") => ReassemblesFrom(formatted, 0, chunks, 1)

\* a text was returned in three chunks and the blank lines at its two break
\* points are not in them
C20_Witness ==
    /\ pcRender = "done"
    /\ Len(chunks) = 3
    /\ ConcatCores(chunks, 1) # formatted
    /\ Len(ConcatCores(chunks, 1)) = Len(formatted) - 4

\* ceil(n / d)
CeilDiv(n, d) == (n + d - 1) \div d

\* C21: the number of chunks splitResponse makes of a text of length L is
\* within 1 of ceil(L / 4000), wherever the blank lines and the
\* period-spaces of the text are, and a text of 9,000 characters is made
\* into 3 chunks.
C21_ChunkCountNearQuotient ==
    /\ (pcRender = "done")
       => /\ Len(chunks) <= CeilDiv(Len(formatted), MAX_LENGTH) + 1
          /\ Len(chunks) >= CeilDiv(Len(formatted), MAX_LENGTH) - 1
    /\ (Len(formatted) = 9000) => Len(chunks) <= 3

\* C22: when splitResponse returns more than one chunk, every chunk but the
\* last ends with the '(continued...)' marker and every chunk but the first
\* starts with the '(continuation)' marker; a single chunk has no marker.
C22_MarkersBetweenChunks ==
    (pcRender = "done")
    => /\ \A n \in 1..Len(chunks) :
             /\ n < Len(chunks) => EndsWith(chunks[n], "\n\n<i>(continued...)</i>")
             /\ n > 1 => StartsWith(chunks[n], "<i>(continuation)</i>\n\n")
       /\ Len(chunks) = 1
             => /\ ~EndsWith(chunks[1], "<i>(continued...)</i>")
                /\ ~StartsWith(chunks[1], "<i>(continuation)</i>")

\* a text was returned in three chunks, the middle one with both markers
C22_Witness ==
    /\ pcRender = "done"
    /\ Len(chunks) = 3
    /\ StartsWith(chunks[2], "<i>(continuation)</i>\n\n")
    /\ EndsWith(chunks[2], "\n\n<i>(continued...)</i>")
    /\ ~StartsWith(chunks[1], "<i>(continuation)</i>")

(***************************************************************************)
(* The life of the process: main() constructs the AgentManager and awaits  *)
(* startAllAgents; a failure ends in process.exit(1).  bot.start() of the  *)
(* library returns a promise that stays pending while the bot polls: it    *)
(* is rejected when an error leaves a handler (no bot.catch is installed)  *)
(* and fulfilled when polling has been stopped by bot.stop().              *)
(***************************************************************************)

\* how the race of bot.stop() against the 5-second timer may end
StopOutcomes == {"stopped", "failed", "timeout"}

\* the mutant of NotRunning: the flags are cleared only after a clean stop
NotRunningIfStopped(flags, outcome) ==
    IF outcome = "stopped" THEN [n \in DOMAIN flags |-> FALSE] ELSE flags

\* stopAllAgents after the race has ended with outcome: a rejection of the
\* race is caught and logged, then every info.isRunning is set to false
NotRunning(flags, outcome) == [n \in DOMAIN flags |-> FALSE]

\* await this.stopAllAgents()
StopAllAgents ==
    \E outcome \in StopOutcomes :
        /\ isRunning' = NotRunning(isRunning, outcome)
        /\ stopResult' = outcome

\* the outer catch of startAllAgents: stopAllAgents, then the error is
\* thrown on to main()
StartFailed ==
    /\ StopAllAgents
    /\ life' = "failed"
    /\ UNCHANGED <<started, shutdownHandlers>>

\* one iteration of the for loop of startAllAgents
SetupAgent ==
    /\ life = "starting"
    /\ started < Len(AgentNames)
    /\ \E ok \in BOOLEAN :
          IF ok
          THEN /\ started' = started + 1
               /\ isRunning' = [isRunning EXCEPT ![started + 1] = TRUE]
               /\ UNCHANGED <<life, shutdownHandlers, stopResult>>
          ELSE StartFailed
    /\ UNCHANGED <<renderVars, routerVars>>

\* await this.bot.start(...): polling begins, or the call fails; after a
\* 409 conflict the bot is stopped and started once more
BotStart ==
    /\ life = "starting"
    /\ started = Len(AgentNames)
    /\ \E first \in {"polling", "conflict", "error"}, second \in {"polling", "error"} :
          IF first = "polling" \/ (first = "conflict" /\ second = "polling")
          THEN /\ life' = "polling"
               /\ UNCHANGED <<isRunning, started, shutdownHandlers, stopResult>>
          ELSE StartFailed
    /\ UNCHANGED <<renderVars, routerVars>>

\* the promise of bot.start() settles: rejected by the error that left a
\* handler, or fulfilled after bot.stop(); only then is the statement after
\* the await, this.setupShutdownHandlers(), executed
StartSettles ==
    /\ life = "polling"
    /\ pc = "idle"
    /\ uncaught \/ stopResult # "none"
    /\ IF uncaught
       THEN StartFailed
       ELSE /\ shutdownHandlers' = TRUE
            /\ life' = "returned"
            /\ UNCHANGED <<isRunning, started, stopResult>>
    /\ UNCHANGED <<renderVars, routerVars>>

\* SIGTERM or SIGINT is delivered: a registered listener begins
\* stopAllAgents; without a listener the signal terminates the process
Signal ==
    /\ life \in {"starting", "polling", "returned", "failed"}
    /\ IF shutdownHandlers
       THEN /\ StopAllAgents
            /\ life' = "stopping"
            /\ UNCHANGED <<started, shutdownHandlers>>
       ELSE /\ life' = "killed"
            /\ UNCHANGED <<isRunning, started, shutdownHandlers, stopResult>>
    /\ UNCHANGED <<renderVars, routerVars>>

\* process.exit(0) of a signal listener, process.exit(1) of main()
ProcessExit ==
    /\ life \in {"stopping", "failed"}
    /\ life' = IF life = "failed" THEN "exited1" ELSE "exited0"
    /\ UNCHANGED <<isRunning, started, shutdownHandlers, stopResult>>
    /\ UNCHANGED <<renderVars, routerVars>>

\* new AgentManager() has returned
InitLifecycle ==
    /\ variant = "specialist"
    /\ RouterIdle
    /\ response = ""
    /\ formatted = ""
    /\ text = ""
    /\ chunks = <<>>
    /\ pcRender = "idle"
    /\ isRunning = [n \in 1..Len(AgentNames) |-> FALSE]
    /\ started = 0
    /\ life = "starting"
    /\ shutdownHandlers = FALSE
    /\ stopResult = "none"

NextLifecycle ==
    \/ SetupAgent
    \/ BotStart
    \/ StartSettles
    \/ Signal
    \/ ProcessExit
    \/ Next

\* the process from construction to its end, handling messages while it polls
SpecLifecycle == InitLifecycle /\ [][NextLifecycle]_vars

\* C23: after a termination signal received while the bot is running, the
\* process ends only when no handler invocation is in flight: every
\* invocation that had begun has finished and sent its replies.
C23_InFlightFinishBeforeExit ==
    (~ProcessAlive) => pc = "idle"

\* C30: an agent is marked isRunning only after its setupHandlers call has
\* returned; whenever startAllAgents has failed, and whenever stopAllAgents
\* has returned, every agent is marked not running, also when bot.stop
\* failed or ran into the 5-second timeout.
C30_RunningOnlyBetweenSetupAndStop ==
    /\ \A n \in 1..Len(AgentNames) : isRunning[n] => n <= started
    /\ life \in {"failed", "exited1"} => \A n \in 1..Len(AgentNames) : ~isRunning[n]
    /\ stopResult # "none" => \A n \in 1..Len(AgentNames) : ~isRunning[n]

\* startAllAgents failed after every agent had been marked running, and the
\* bot.stop() of its stopAllAgents ran into the timeout
C30_Witness ==
    /\ life = "failed"
    /\ started = Len(AgentNames)
    /\ stopResult = "timeout"
    /\ \A n \in 1..Len(AgentNames) : ~isRunning[n]

\* the older handler processes m: an allowed chat, no command, and the text
\* mentions the bot or is an opinion query
ProcessedOlder(m) ==
    /\ IsAllowedChat(m.chat)
    /\ ~StartsWith(m.text, "/")
    /\ IsBotMentioned(m.text, MeUsername) \/ IsOpinionQuery(m.text)

\* the residual the older handler is left with for m
ResidualOlder(m) ==
    IF IsBotMentioned(m.text, MeUsername) THEN RemoveBotMention(m.text, MeUsername) ELSE m.text

\* C24: in the always-synthesize variant every processed message of an
\* allowed chat with a non-empty residual that is no trivial interaction is
\* answered through OpinionAgent.generateResponse: no relevance-scoring call
\* is issued for it, and exactly one generation call per specialist, in the
\* declared order, and then one synthesis call.
C24_AlwaysSynthesized ==
    (variant = "synthesize" /\ pc # "handle" /\ chain # <<>>)
    => /\ \A n \in 1..Len(calls) : calls[n].kind # "relevance"
       /\ \E residual \in {ResidualOlder(msg)} :
             (/\ ProcessedOlder(msg)
              /\ Trim(residual) # ""
              /\ ~IsSimpleInteractionOlder(residual).isSimple)
             => /\ branch = "opinion"
                /\ question = residual
                /\ pc \in {"render", "idle"}
                      => /\ Len(calls) = Len(Specialists) + 1
                         /\ \A n \in 1..Len(Specialists) :
                               /\ calls[n].kind = "generate"
                               /\ calls[n].agent = Specialists[n]
                               /\ calls[n].question = residual
                         /\ calls[Len(calls)].kind = "synthesis"
                         /\ calls[Len(calls)].agent = "opinion"

\* an opinion query that does not mention the bot was answered through the
\* synthesis
C24_Witness ==
    /\ variant = "synthesize"
    /\ pc = "idle"
    /\ branch = "opinion"
    /\ ~IsBotMentioned(msg.text, MeUsername)
    /\ Len(calls) = Len(Specialists) + 1
    /\ calls[Len(calls)].kind = "synthesis"
    /\ replies # <<>>

\* a reply was sent or a generation-service call issued for msg
Processed == replies # <<>> \/ calls # <<>>

FirstMatch ==
    IF ~IsAllowedChat(msg.chat) THEN {"notAllowed"}
    ELSE IF /\ msg.reply.isReply
            /\ ~msg.reply.fromBot
            /\ ~IsBotMentioned(msg.text, MeUsername) THEN {"replyIgnored"}
    ELSE IF StartsWith(questionText, "/") THEN {"command"}
    ELSE IF ~msg.reply.isReply /\ ~IsBotMentioned(questionText, MeUsername) THEN {"unaddressed"}
    ELSE IF Trim(question) = "" THEN {"prompt"}
    ELSE IF IsSimpleInteraction(question).isSimple THEN {"simple"}
    ELSE IF Includes(ToLowerCase(questionText), "getkeywords") THEN {"opinion"}
    ELSE {"score", "specialist", "fallback"}

\* the replies of a generation branch: chunks of the answer and apologies
AnswerReplies ==
    \A n \in 1..Len(replies) :
        \/ replies[n].html
        \/ replies[n].text \in {FormattingApology, ErrorApology}

\* C26: for every message the handler takes exactly one branch, the first
\* in the order notAllowed / replyIgnored, command, unaddressed, prompt,
\* simple, opinion, specialist, fallback whose condition holds, and only
\* that branch replies and calls: an ignoring branch does nothing, the
\* prompt and the canned reply are the only reply of their branch and no
\* call is made, the synthesis is not preceded by relevance calls, and the
\* fallback reply is not accompanied by a generated answer.
C26_OneBranchInOrder ==
    (pc # "handle" /\ chain # <<>>)
    => /\ branch \in FirstMatch
       /\ branch \in {"notAllowed", "replyIgnored", "command", "unaddressed"}
             => replies = <<>> /\ calls = <<>>
       /\ branch = "prompt" => replies = <<Reply(PromptReply, FALSE)>> /\ calls = <<>>
       /\ branch = "simple"
             => /\ replies = <<Reply(IsSimpleInteraction(question).response, FALSE)>>
                /\ calls = <<>>
       /\ branch = "opinion"
             => /\ \A n \in 1..Len(calls) : calls[n].kind \in {"generate", "synthesis"}
                /\ AnswerReplies
       /\ branch = "score"
             => /\ replies = <<>>
                /\ \A n \in 1..Len(calls) : calls[n].kind = "relevance"
       /\ branch = "specialist"
             => /\ \A n \in 1..Len(calls) :
                      calls[n].kind = (IF n = Len(calls) THEN "generate" ELSE "relevance")
                /\ AnswerReplies
       /\ branch = "fallback"
             => /\ replies = <<Reply(FallbackReply, FALSE)>>
                /\ \A n \in 1..Len(calls) : calls[n].kind = "relevance"

\* a text that is both addressed and a request for the synthesis was
\* answered by the synthesis only
C26_Witness ==
    /\ pc = "idle"
    /\ branch = "opinion"
    /\ IsBotMentioned(msg.text, MeUsername)
    /\ Len(calls) = Len(Specialists) + 1
    /\ replies # <<>>
    /\ AnswerReplies

\* the categories of isSimpleInteraction that a trimmed lower-case text
\* matches: 1 time-of-day greeting, 2 greeting, 3 thanks, 4 test phrase,
\* 5 identity question, 6 capability question, 7 status check
MatchedCategories(lowerText) ==
    {1 : x \in {g \in 1..Len(timeGreetings) : SomeIncluded(lowerText, timeGreetings[g])}}
    \cup {2 : x \in {p \in greetings : Includes(lowerText, p)}}
    \cup {3 : x \in {p \in thanks : Includes(lowerText, p)}}
    \cup {4 : x \in {p \in testMessages : lowerText = p}}
    \cup {5 : x \in {p \in introPatterns : IntroMatches(lowerText, p)}}
    \cup {6 : x \in {p \in capabilityPatterns : Includes(lowerText, p)}}
    \cup {7 : x \in {p \in statusChecks : Includes(lowerText, p)}}

\* the canned replies of each category
CategoryReplies ==
    << {TimeGreetingReply, NightGreetingReply}, {GreetingReply}, {ThanksReply}, {TestReply},
       {IntroReply}, {CapabilityReply}, {StatusReply} >>

C28_GenerationBranchReplies ==
    (pc = "idle" /\ branch \in {"opinion", "specialist"}) => replies # <<>>

\* the replies from position k + 1 on
RepliesAfter(k) == SubSeq(replies, k + 1, Len(replies))

\* C29: replyWithFormattedResponse replies with the chunks in their order,
\* one after the other; when the reply with chunk k fails, no chunk after k
\* is replied with and the formatting apology is replied exactly once in
\* their place (followed by the apology of the generation branch only if
\* the formatting apology failed too).
C29_ChunksInOrderThenOneApology ==
    (pc = "idle" /\ variant = "specialist" /\ branch \in {"opinion", "specialist"})
    => \E k \in 0..Len(chunks) :
          /\ Len(replies) >= k
          /\ \A n \in 1..k : replies[n] = Reply(chunks[n], TRUE)
          /\ \/ k = Len(chunks) /\ RepliesAfter(k) = <<>>
             \/ /\ k >= 1
                /\ RepliesAfter(k) \in
                      {<<Reply(FormattingApology, FALSE)>>,
                       <<Reply(FormattingApology, FALSE), Reply(ErrorApology, FALSE)>>}

\* the reply with the first of two chunks failed: the second chunk was not
\* sent and the formatting apology was
C29_Witness ==
    /\ pc = "idle"
    /\ variant = "specialist"
    /\ branch = "opinion"
    /\ Len(chunks) = 2
    /\ replies = <<Reply(chunks[1], TRUE), Reply(FormattingApology, FALSE)>>

====
